---- MODULE Spec2Model ----
(***************************************************************************)
(* GDTF 1.1 Builder (src/Main.py): the channel-name resolver, the name     *)
(* sanitiser and the document builder build_gdtf.                          *)
(*                                                                         *)
(* A Python str is modelled as a sequence of one-character strings, so     *)
(* that lower(), strip(), replace(), re.sub() and the substring test       *)
(* `key in clean` are computed character by character as the code does.    *)
(***************************************************************************)
EXTENDS Integers, Sequences, FiniteSets, TLC

----------------------------------------------------------------------------
(* Characters and the str methods the code uses *)

UPPER == <<"A","B","C","D","E","F","G","H","I","J","K","L","M",
           "N","O","P","Q","R","S","T","U","V","W","X","Y","Z">>
LOWER == <<"a","b","c","d","e","f","g","h","i","j","k","l","m",
           "n","o","p","q","r","s","t","u","v","w","x","y","z">>
DIGITS == <<"0","1","2","3","4","5","6","7","8","9">>

Range(s) == {s[i] : i \in DOMAIN s}

UpperSet == Range(UPPER)
LowerSet == Range(LOWER)
DigitSet == Range(DIGITS)

\* str.strip() with no argument removes whitespace; " " is the whitespace
\* character of the model's alphabets.
Whitespace == {" "}

\* [A-Za-z0-9_] of the regular expression in resolve_attr
WordChars == UpperSet \cup LowerSet \cup DigitSet \cup {"_"}

\* [A-Za-z0-9_ \-] of the regular expression in _safe_xml_name
SafeChars == WordChars \cup {" ", "-"}

lower(s) ==
  [i \in 1..Len(s) |->
     IF s[i] \in UpperSet
       THEN LOWER[CHOOSE k \in 1..Len(UPPER) : UPPER[k] = s[i]]
       ELSE s[i]]

RECURSIVE lstrip(_, _)
lstrip(s, chars) ==
  IF s = <<>> THEN <<>>
  ELSE IF s[1] \in chars THEN lstrip(Tail(s), chars) ELSE s

RECURSIVE rstrip(_, _)
rstrip(s, chars) ==
  IF s = <<>> THEN <<>>
  ELSE IF s[Len(s)] \in chars THEN rstrip(SubSeq(s, 1, Len(s) - 1), chars) ELSE s

strip(s, chars) == rstrip(lstrip(s, chars), chars)

\* Python's `k in s` for two str
Contains(s, k) ==
  \E i \in 0..(Len(s) - Len(k)) : \A j \in 1..Len(k) : s[i + j] = k[j]

\* str.replace(old, new) for a one-character old
RECURSIVE replace(_, _, _)
replace(s, old, new) ==
  IF s = <<>> THEN <<>>
  ELSE (IF s[1] = old THEN new ELSE <<s[1]>>) \o replace(Tail(s), old, new)

\* re.sub(r'[^A-Za-z0-9_]', '_', s)
sub_nonword(s) ==
  [i \in 1..Len(s) |-> IF s[i] \in WordChars THEN s[i] ELSE "_"]

\* mutant of sub_unsafe: nothing is removed
sub_unsafe_keep_all(s) == s

\* re.sub(r'[^A-Za-z0-9_ \-]', '', s)
sub_unsafe(s) == SelectSeq(s, LAMBDA c : c \in SafeChars)

\* re.sub(r'[ _]+', '_', s)
RECURSIVE sub_runs(_)
sub_runs(s) ==
  IF s = <<>> THEN <<>>
  ELSE IF s[1] \in {" ", "_"}
         THEN <<"_">> \o sub_runs(lstrip(s, {" ", "_"}))
         ELSE <<s[1]>> \o sub_runs(Tail(s))

\* str(n) for n >= 0
RECURSIVE Str(_)
Str(n) ==
  IF n < 10 THEN <<DIGITS[n + 1]>>
  ELSE Str(n \div 10) \o <<DIGITS[(n % 10) + 1]>>

----------------------------------------------------------------------------
(* The attribute table, in definition order (dict order is insertion order) *)

ATTR_MAP ==
  <<
    [key |-> <<"d","i","m","m","e","r">>,
     val |-> [attr |-> <<"D","i","m","m","e","r">>, fg |-> <<"D","i","m","m","i","n","g">>,
             feat |-> <<"I","n","t","e","n","s","i","t","y">>, ag |-> <<"D","i","m","m","e","r">>]],
    [key |-> <<"i","n","t","e","n","s","i","t","y">>,
     val |-> [attr |-> <<"D","i","m","m","e","r">>, fg |-> <<"D","i","m","m","i","n","g">>,
             feat |-> <<"I","n","t","e","n","s","i","t","y">>, ag |-> <<"D","i","m","m","e","r">>]],
    [key |-> <<"m","a","s","t","e","r">>,
     val |-> [attr |-> <<"D","i","m","m","e","r">>, fg |-> <<"D","i","m","m","i","n","g">>,
             feat |-> <<"I","n","t","e","n","s","i","t","y">>, ag |-> <<"D","i","m","m","e","r">>]],
    [key |-> <<"p","a","n">>,
     val |-> [attr |-> <<"P","a","n">>, fg |-> <<"P","o","s","i","t","i","o","n">>,
             feat |-> <<"P","o","s","i","t","i","o","n">>, ag |-> <<"P","a","n","T","i","l","t">>]],
    [key |-> <<"t","i","l","t">>,
     val |-> [attr |-> <<"T","i","l","t">>, fg |-> <<"P","o","s","i","t","i","o","n">>,
             feat |-> <<"P","o","s","i","t","i","o","n">>, ag |-> <<"P","a","n","T","i","l","t">>]],
    [key |-> <<"p","a","n"," ","s","p","e","e","d">>,
     val |-> [attr |-> <<"P","a","n","R","o","t","a","t","e">>, fg |-> <<"P","o","s","i","t","i","o","n">>,
             feat |-> <<"P","o","s","i","t","i","o","n">>, ag |-> <<"P","a","n","T","i","l","t">>]],
    [key |-> <<"t","i","l","t"," ","s","p","e","e","d">>,
     val |-> [attr |-> <<"T","i","l","t","R","o","t","a","t","e">>, fg |-> <<"P","o","s","i","t","i","o","n">>,
             feat |-> <<"P","o","s","i","t","i","o","n">>, ag |-> <<"P","a","n","T","i","l","t">>]],
    [key |-> <<"x","y","z"," ","x">>,
     val |-> [attr |-> <<"X","Y","Z","_","X">>, fg |-> <<"P","o","s","i","t","i","o","n">>,
             feat |-> <<"P","o","s","i","t","i","o","n">>, ag |-> <<"X","Y","Z">>]],
    [key |-> <<"x","y","z"," ","y">>,
     val |-> [attr |-> <<"X","Y","Z","_","Y">>, fg |-> <<"P","o","s","i","t","i","o","n">>,
             feat |-> <<"P","o","s","i","t","i","o","n">>, ag |-> <<"X","Y","Z">>]],
    [key |-> <<"x","y","z"," ","z">>,
     val |-> [attr |-> <<"X","Y","Z","_","Z">>, fg |-> <<"P","o","s","i","t","i","o","n">>,
             feat |-> <<"P","o","s","i","t","i","o","n">>, ag |-> <<"X","Y","Z">>]],
    [key |-> <<"r","e","d">>,
     val |-> [attr |-> <<"C","o","l","o","r","A","d","d","_","R">>, fg |-> <<"C","o","l","o","r">>,
             feat |-> <<"C","o","l","o","r">>, ag |-> <<"R","G","B">>]],
    [key |-> <<"g","r","e","e","n">>,
     val |-> [attr |-> <<"C","o","l","o","r","A","d","d","_","G">>, fg |-> <<"C","o","l","o","r">>,
             feat |-> <<"C","o","l","o","r">>, ag |-> <<"R","G","B">>]],
    [key |-> <<"b","l","u","e">>,
     val |-> [attr |-> <<"C","o","l","o","r","A","d","d","_","B">>, fg |-> <<"C","o","l","o","r">>,
             feat |-> <<"C","o","l","o","r">>, ag |-> <<"R","G","B">>]],
    [key |-> <<"w","h","i","t","e">>,
     val |-> [attr |-> <<"C","o","l","o","r","A","d","d","_","W">>, fg |-> <<"C","o","l","o","r">>,
             feat |-> <<"C","o","l","o","r">>, ag |-> <<"R","G","B","W">>]],
    [key |-> <<"a","m","b","e","r">>,
     val |-> [attr |-> <<"C","o","l","o","r","A","d","d","_","A">>, fg |-> <<"C","o","l","o","r">>,
             feat |-> <<"C","o","l","o","r">>, ag |-> <<"R","G","B","W">>]],
    [key |-> <<"l","i","m","e">>,
     val |-> [attr |-> <<"C","o","l","o","r","A","d","d","_","L">>, fg |-> <<"C","o","l","o","r">>,
             feat |-> <<"C","o","l","o","r">>, ag |-> <<"R","G","B","W">>]],
    [key |-> <<"u","v">>,
     val |-> [attr |-> <<"C","o","l","o","r","A","d","d","_","U","V">>, fg |-> <<"C","o","l","o","r">>,
             feat |-> <<"C","o","l","o","r">>, ag |-> <<"R","G","B","W">>]],
    [key |-> <<"i","n","d","i","g","o">>,
     val |-> [attr |-> <<"C","o","l","o","r","A","d","d","_","I">>, fg |-> <<"C","o","l","o","r">>,
             feat |-> <<"C","o","l","o","r">>, ag |-> <<"R","G","B","W">>]],
    [key |-> <<"c","y","a","n">>,
     val |-> [attr |-> <<"C","o","l","o","r","S","u","b","_","C">>, fg |-> <<"C","o","l","o","r">>,
             feat |-> <<"C","o","l","o","r">>, ag |-> <<"C","M","Y">>]],
    [key |-> <<"m","a","g","e","n","t","a">>,
     val |-> [attr |-> <<"C","o","l","o","r","S","u","b","_","M">>, fg |-> <<"C","o","l","o","r">>,
             feat |-> <<"C","o","l","o","r">>, ag |-> <<"C","M","Y">>]],
    [key |-> <<"y","e","l","l","o","w">>,
     val |-> [attr |-> <<"C","o","l","o","r","S","u","b","_","Y">>, fg |-> <<"C","o","l","o","r">>,
             feat |-> <<"C","o","l","o","r">>, ag |-> <<"C","M","Y">>]],
    [key |-> <<"c","t","o">>,
     val |-> [attr |-> <<"C","T","O">>, fg |-> <<"C","o","l","o","r">>,
             feat |-> <<"C","o","l","o","r">>, ag |-> <<"C","T","O">>]],
    [key |-> <<"c","t","b">>,
     val |-> [attr |-> <<"C","T","B">>, fg |-> <<"C","o","l","o","r">>,
             feat |-> <<"C","o","l","o","r">>, ag |-> <<"C","T","B">>]],
    [key |-> <<"h","u","e">>,
     val |-> [attr |-> <<"C","I","E","_","X">>, fg |-> <<"C","o","l","o","r">>,
             feat |-> <<"C","o","l","o","r">>, ag |-> <<"H","S","B">>]],
    [key |-> <<"s","a","t","u","r","a","t","i","o","n">>,
     val |-> [attr |-> <<"C","I","E","_","Y">>, fg |-> <<"C","o","l","o","r">>,
             feat |-> <<"C","o","l","o","r">>, ag |-> <<"H","S","B">>]],
    [key |-> <<"c","o","l","o","r"," ","w","h","e","e","l">>,
     val |-> [attr |-> <<"C","o","l","o","r","1">>, fg |-> <<"C","o","l","o","r">>,
             feat |-> <<"C","o","l","o","r">>, ag |-> <<"C","o","l","o","r","W","h","e","e","l">>]],
    [key |-> <<"c","o","l","o","u","r"," ","w","h","e","e","l">>,
     val |-> [attr |-> <<"C","o","l","o","r","1">>, fg |-> <<"C","o","l","o","r">>,
             feat |-> <<"C","o","l","o","r">>, ag |-> <<"C","o","l","o","r","W","h","e","e","l">>]],
    [key |-> <<"c","o","l","o","r">>,
     val |-> [attr |-> <<"C","o","l","o","r","1">>, fg |-> <<"C","o","l","o","r">>,
             feat |-> <<"C","o","l","o","r">>, ag |-> <<"C","o","l","o","r","W","h","e","e","l">>]],
    [key |-> <<"c","o","l","o","u","r">>,
     val |-> [attr |-> <<"C","o","l","o","r","1">>, fg |-> <<"C","o","l","o","r">>,
             feat |-> <<"C","o","l","o","r">>, ag |-> <<"C","o","l","o","r","W","h","e","e","l">>]],
    [key |-> <<"c","o","l","o","r"," ","m","i","x">>,
     val |-> [attr |-> <<"C","o","l","o","r","M","i","x","M","o","d","e">>, fg |-> <<"C","o","l","o","r">>,
             feat |-> <<"C","o","l","o","r">>, ag |-> <<"C","o","l","o","r","W","h","e","e","l">>]],
    [key |-> <<"s","h","u","t","t","e","r">>,
     val |-> [attr |-> <<"S","h","u","t","t","e","r","1">>, fg |-> <<"B","e","a","m">>,
             feat |-> <<"B","e","a","m">>, ag |-> <<"S","h","u","t","t","e","r">>]],
    [key |-> <<"s","t","r","o","b","e">>,
     val |-> [attr |-> <<"S","h","u","t","t","e","r","1","S","t","r","o","b","e">>, fg |-> <<"B","e","a","m">>,
             feat |-> <<"B","e","a","m">>, ag |-> <<"S","h","u","t","t","e","r">>]],
    [key |-> <<"s","t","r","o","b","e"," ","r","a","t","e">>,
     val |-> [attr |-> <<"S","h","u","t","t","e","r","1","S","t","r","o","b","e","F","r","e","q">>, fg |-> <<"B","e","a","m">>,
             feat |-> <<"B","e","a","m">>, ag |-> <<"S","h","u","t","t","e","r">>]],
    [key |-> <<"s","t","r","o","b","e"," ","s","p","e","e","d">>,
     val |-> [attr |-> <<"S","h","u","t","t","e","r","1","S","t","r","o","b","e","F","r","e","q">>, fg |-> <<"B","e","a","m">>,
             feat |-> <<"B","e","a","m">>, ag |-> <<"S","h","u","t","t","e","r">>]],
    [key |-> <<"z","o","o","m">>,
     val |-> [attr |-> <<"Z","o","o","m">>, fg |-> <<"B","e","a","m">>,
             feat |-> <<"B","e","a","m">>, ag |-> <<"Z","o","o","m">>]],
    [key |-> <<"f","o","c","u","s">>,
     val |-> [attr |-> <<"F","o","c","u","s","1">>, fg |-> <<"B","e","a","m">>,
             feat |-> <<"B","e","a","m">>, ag |-> <<"F","o","c","u","s">>]],
    [key |-> <<"i","r","i","s">>,
     val |-> [attr |-> <<"I","r","i","s">>, fg |-> <<"B","e","a","m">>,
             feat |-> <<"B","e","a","m">>, ag |-> <<"I","r","i","s">>]],
    [key |-> <<"f","r","o","s","t">>,
     val |-> [attr |-> <<"F","r","o","s","t","1">>, fg |-> <<"B","e","a","m">>,
             feat |-> <<"B","e","a","m">>, ag |-> <<"F","r","o","s","t">>]],
    [key |-> <<"d","i","f","f","u","s","i","o","n">>,
     val |-> [attr |-> <<"F","r","o","s","t","1">>, fg |-> <<"B","e","a","m">>,
             feat |-> <<"B","e","a","m">>, ag |-> <<"F","r","o","s","t">>]],
    [key |-> <<"g","o","b","o">>,
     val |-> [attr |-> <<"G","o","b","o","1">>, fg |-> <<"G","o","b","o">>,
             feat |-> <<"G","o","b","o">>, ag |-> <<"G","o","b","o">>]],
    [key |-> <<"g","o","b","o"," ","w","h","e","e","l">>,
     val |-> [attr |-> <<"G","o","b","o","1">>, fg |-> <<"G","o","b","o">>,
             feat |-> <<"G","o","b","o">>, ag |-> <<"G","o","b","o">>]],
    [key |-> <<"g","o","b","o"," ","1">>,
     val |-> [attr |-> <<"G","o","b","o","1">>, fg |-> <<"G","o","b","o">>,
             feat |-> <<"G","o","b","o">>, ag |-> <<"G","o","b","o">>]],
    [key |-> <<"g","o","b","o"," ","2">>,
     val |-> [attr |-> <<"G","o","b","o","2">>, fg |-> <<"G","o","b","o">>,
             feat |-> <<"G","o","b","o">>, ag |-> <<"G","o","b","o">>]],
    [key |-> <<"g","o","b","o"," ","r","o","t","a","t","i","o","n">>,
     val |-> [attr |-> <<"G","o","b","o","1","P","o","s">>, fg |-> <<"G","o","b","o">>,
             feat |-> <<"G","o","b","o">>, ag |-> <<"G","o","b","o">>]],
    [key |-> <<"g","o","b","o"," ","s","p","i","n">>,
     val |-> [attr |-> <<"G","o","b","o","1","P","o","s","R","o","t","a","t","e">>, fg |-> <<"G","o","b","o">>,
             feat |-> <<"G","o","b","o">>, ag |-> <<"G","o","b","o">>]],
    [key |-> <<"g","o","b","o"," ","i","n","d","e","x">>,
     val |-> [attr |-> <<"G","o","b","o","1","P","o","s">>, fg |-> <<"G","o","b","o">>,
             feat |-> <<"G","o","b","o">>, ag |-> <<"G","o","b","o">>]],
    [key |-> <<"p","r","i","s","m">>,
     val |-> [attr |-> <<"P","r","i","s","m","1">>, fg |-> <<"B","e","a","m">>,
             feat |-> <<"B","e","a","m">>, ag |-> <<"P","r","i","s","m">>]],
    [key |-> <<"p","r","i","s","m"," ","r","o","t","a","t","i","o","n">>,
     val |-> [attr |-> <<"P","r","i","s","m","1","P","o","s">>, fg |-> <<"B","e","a","m">>,
             feat |-> <<"B","e","a","m">>, ag |-> <<"P","r","i","s","m">>]],
    [key |-> <<"e","f","f","e","c","t","s">>,
     val |-> [attr |-> <<"E","f","f","e","c","t","s","1">>, fg |-> <<"B","e","a","m">>,
             feat |-> <<"B","e","a","m">>, ag |-> <<"E","f","f","e","c","t","s">>]],
    [key |-> <<"e","f","f","e","c","t">>,
     val |-> [attr |-> <<"E","f","f","e","c","t","s","1">>, fg |-> <<"B","e","a","m">>,
             feat |-> <<"B","e","a","m">>, ag |-> <<"E","f","f","e","c","t","s">>]],
    [key |-> <<"a","n","i","m","a","t","i","o","n">>,
     val |-> [attr |-> <<"E","f","f","e","c","t","s","1">>, fg |-> <<"B","e","a","m">>,
             feat |-> <<"B","e","a","m">>, ag |-> <<"E","f","f","e","c","t","s">>]],
    [key |-> <<"e","f","f","e","c","t","s"," ","s","p","e","e","d">>,
     val |-> [attr |-> <<"E","f","f","e","c","t","s","S","p","e","e","d">>, fg |-> <<"B","e","a","m">>,
             feat |-> <<"B","e","a","m">>, ag |-> <<"E","f","f","e","c","t","s">>]],
    [key |-> <<"e","f","f","e","c","t","s"," ","f","a","d","e">>,
     val |-> [attr |-> <<"E","f","f","e","c","t","s","F","a","d","e">>, fg |-> <<"B","e","a","m">>,
             feat |-> <<"B","e","a","m">>, ag |-> <<"E","f","f","e","c","t","s">>]],
    [key |-> <<"b","l","a","d","e"," ","1">>,
     val |-> [attr |-> <<"B","l","a","d","e","1","A">>, fg |-> <<"S","h","a","p","e","r","s">>,
             feat |-> <<"S","h","a","p","e","r","s">>, ag |-> <<"B","l","a","d","e">>]],
    [key |-> <<"b","l","a","d","e"," ","2">>,
     val |-> [attr |-> <<"B","l","a","d","e","2","A">>, fg |-> <<"S","h","a","p","e","r","s">>,
             feat |-> <<"S","h","a","p","e","r","s">>, ag |-> <<"B","l","a","d","e">>]],
    [key |-> <<"b","l","a","d","e"," ","3">>,
     val |-> [attr |-> <<"B","l","a","d","e","3","A">>, fg |-> <<"S","h","a","p","e","r","s">>,
             feat |-> <<"S","h","a","p","e","r","s">>, ag |-> <<"B","l","a","d","e">>]],
    [key |-> <<"b","l","a","d","e"," ","4">>,
     val |-> [attr |-> <<"B","l","a","d","e","4","A">>, fg |-> <<"S","h","a","p","e","r","s">>,
             feat |-> <<"S","h","a","p","e","r","s">>, ag |-> <<"B","l","a","d","e">>]],
    [key |-> <<"b","l","a","d","e"," ","r","o","t","a","t","i","o","n">>,
     val |-> [attr |-> <<"S","h","a","p","e","r","R","o","t">>, fg |-> <<"S","h","a","p","e","r","s">>,
             feat |-> <<"S","h","a","p","e","r","s">>, ag |-> <<"B","l","a","d","e">>]],
    [key |-> <<"m","a","c","r","o">>,
     val |-> [attr |-> <<"M","a","c","r","o">>, fg |-> <<"C","o","n","t","r","o","l">>,
             feat |-> <<"C","o","n","t","r","o","l">>, ag |-> <<"M","a","c","r","o">>]],
    [key |-> <<"s","c","e","n","e">>,
     val |-> [attr |-> <<"M","a","c","r","o">>, fg |-> <<"C","o","n","t","r","o","l">>,
             feat |-> <<"C","o","n","t","r","o","l">>, ag |-> <<"M","a","c","r","o">>]],
    [key |-> <<"p","r","o","g","r","a","m">>,
     val |-> [attr |-> <<"M","a","c","r","o">>, fg |-> <<"C","o","n","t","r","o","l">>,
             feat |-> <<"C","o","n","t","r","o","l">>, ag |-> <<"M","a","c","r","o">>]],
    [key |-> <<"f","u","n","c","t","i","o","n">>,
     val |-> [attr |-> <<"F","u","n","c","t","i","o","n">>, fg |-> <<"C","o","n","t","r","o","l">>,
             feat |-> <<"C","o","n","t","r","o","l">>, ag |-> <<"F","u","n","c","t","i","o","n">>]],
    [key |-> <<"c","o","n","t","r","o","l">>,
     val |-> [attr |-> <<"F","u","n","c","t","i","o","n">>, fg |-> <<"C","o","n","t","r","o","l">>,
             feat |-> <<"C","o","n","t","r","o","l">>, ag |-> <<"F","u","n","c","t","i","o","n">>]],
    [key |-> <<"r","e","s","e","t">>,
     val |-> [attr |-> <<"F","u","n","c","t","i","o","n">>, fg |-> <<"C","o","n","t","r","o","l">>,
             feat |-> <<"C","o","n","t","r","o","l">>, ag |-> <<"F","u","n","c","t","i","o","n">>]],
    [key |-> <<"l","a","m","p">>,
     val |-> [attr |-> <<"L","a","m","p","C","o","n","t","r","o","l">>, fg |-> <<"C","o","n","t","r","o","l">>,
             feat |-> <<"C","o","n","t","r","o","l">>, ag |-> <<"F","u","n","c","t","i","o","n">>]],
    [key |-> <<"f","a","n","s">>,
     val |-> [attr |-> <<"F","u","n","c","t","i","o","n">>, fg |-> <<"C","o","n","t","r","o","l">>,
             feat |-> <<"C","o","n","t","r","o","l">>, ag |-> <<"F","u","n","c","t","i","o","n">>]],
    [key |-> <<"s","p","e","e","d">>,
     val |-> [attr |-> <<"E","f","f","e","c","t","s","S","p","e","e","d">>, fg |-> <<"B","e","a","m">>,
             feat |-> <<"B","e","a","m">>, ag |-> <<"E","f","f","e","c","t","s">>]],
    [key |-> <<"v","i","d","e","o">>,
     val |-> [attr |-> <<"V","i","d","e","o","E","f","f","e","c","t","1","T","y","p","e">>, fg |-> <<"C","o","n","t","r","o","l">>,
             feat |-> <<"C","o","n","t","r","o","l">>, ag |-> <<"F","u","n","c","t","i","o","n">>]],
    [key |-> <<"m","e","d","i","a">>,
     val |-> [attr |-> <<"V","i","d","e","o","E","f","f","e","c","t","1","T","y","p","e">>, fg |-> <<"C","o","n","t","r","o","l">>,
             feat |-> <<"C","o","n","t","r","o","l">>, ag |-> <<"F","u","n","c","t","i","o","n">>]]
  >>

WHEEL_ATTRS ==
  { <<"C","o","l","o","r","1">>,
    <<"C","o","l","o","r","2">>,
    <<"G","o","b","o","1">>,
    <<"G","o","b","o","2">>,
    <<"G","o","b","o","1","P","o","s">>,
    <<"G","o","b","o","2","P","o","s">>,
    <<"P","r","i","s","m","1">>,
    <<"E","f","f","e","c","t","s","1">>,
    <<"A","n","i","m","a","t","i","o","n","1">>,
    <<"M","a","c","r","o">>,
    <<"L","a","m","p","C","o","n","t","r","o","l">>,
    <<"F","u","n","c","t","i","o","n">>,
    <<"S","h","u","t","t","e","r","1">>,
    <<"S","h","u","t","t","e","r","1","S","t","r","o","b","e">> }

Custom == <<"C","u","s","t","o","m">>
Control == <<"C","o","n","t","r","o","l">>

----------------------------------------------------------------------------
(* resolve_attr *)

\* mutant of resolve_fallback: the `or "Custom"` default is missing
resolve_fallback_no_default(raw) ==
  LET safe == sub_nonword(strip(raw, Whitespace))
  IN [attr |-> safe, fg |-> Control, feat |-> Control, ag |-> safe]

\* mutant of resolve_fallback: the custom name is used for all four fields
resolve_fallback_all_custom(raw) ==
  LET sub  == sub_nonword(strip(raw, Whitespace))
      safe == IF sub = <<>> THEN Custom ELSE sub
  IN [attr |-> safe, fg |-> safe, feat |-> safe, ag |-> safe]

\* safe = re.sub(...) or "Custom"; return (safe, "Control", "Control", safe)
resolve_fallback(raw) ==
  LET sub  == sub_nonword(strip(raw, Whitespace))
      safe == IF sub = <<>> THEN Custom ELSE sub
  IN [attr |-> safe, fg |-> Control, feat |-> Control, ag |-> safe]

\* for key, val in ATTR_MAP.items(): if key in clean: return val
RECURSIVE resolve_scan(_, _, _)
resolve_scan(raw, clean, i) ==
  IF i > Len(ATTR_MAP) THEN resolve_fallback(raw)
  ELSE IF Contains(clean, ATTR_MAP[i].key) THEN ATTR_MAP[i].val
  ELSE resolve_scan(raw, clean, i + 1)

\* mutant of resolve_attr: the exact lookup is missing, only the scan is left
resolve_attr_scan_only(raw) ==
  resolve_scan(raw, strip(lower(raw), Whitespace), 1)

\* clean = raw.lower().strip(); exact lookup, then scan, then fallback
resolve_attr(raw) ==
  LET clean == strip(lower(raw), Whitespace)
      hit   == {i \in DOMAIN ATTR_MAP : ATTR_MAP[i].key = clean}
  IN IF hit # {} THEN ATTR_MAP[CHOOSE i \in hit : TRUE].val
     ELSE resolve_scan(raw, clean, 1)

----------------------------------------------------------------------------
(* _safe_xml_name *)

\* mutant of _safe_xml_name: the fallback prefix is added to an empty result
\* only, not to one that starts with a digit
_safe_xml_name_empty_only(text, fallback) ==
  LET s1 == strip(text, Whitespace)
      s2 == replace(replace(replace(s1, "°", <<"d","e","g">>),
                            "%", <<"p","c","t">>), "/", <<"_">>)
      s3 == replace(replace(replace(s2, ".", <<"_">>), ":", <<"_">>), ";", <<"_">>)
      s5 == strip(sub_runs(SelectSeq(s3, LAMBDA c : c \in SafeChars)), {"_"})
      s6 == IF s5 = <<>> THEN fallback \o <<"_">> \o s5 ELSE s5
  IN IF s6 = <<>> THEN fallback ELSE s6

\* mutant of _safe_xml_name: an empty result becomes the bare fallback
_safe_xml_name_bare_fallback(text, fallback) ==
  LET s1 == strip(text, Whitespace)
      s2 == replace(replace(replace(s1, "°", <<"d","e","g">>),
                            "%", <<"p","c","t">>), "/", <<"_">>)
      s3 == replace(replace(replace(s2, ".", <<"_">>), ":", <<"_">>), ";", <<"_">>)
      s4 == sub_unsafe(s3)
      s5 == strip(sub_runs(s4), {"_"})
  IN IF s5 = <<>> THEN fallback
     ELSE IF s5[1] \in DigitSet THEN fallback \o <<"_">> \o s5 ELSE s5

_safe_xml_name(text, fallback) ==
  LET s1 == strip(text, Whitespace)
      s2 == replace(replace(replace(s1, "°", <<"d","e","g">>),
                            "%", <<"p","c","t">>), "/", <<"_">>)
      s3 == replace(replace(replace(s2, ".", <<"_">>), ":", <<"_">>), ";", <<"_">>)
      s4 == sub_unsafe(s3)
      s5 == strip(sub_runs(s4), {"_"})
      s6 == IF s5 = <<>> \/ s5[1] \in DigitSet THEN fallback \o <<"_">> \o s5 ELSE s5
  IN IF s6 = <<>> THEN fallback ELSE s6

----------------------------------------------------------------------------
(* Data structures *)

\* round(d / 255, 6), held in millionths
Round6(d) == (2 * 1000000 * d + 255) \div (2 * 255)

\* ChannelSlot as channel_defs_from_mode constructs it
ChannelSlot(name, dmx_from, dmx_to) ==
  [name |-> name, dmx_from |-> dmx_from, dmx_to |-> dmx_to,
   physical_from |-> Round6(dmx_from), physical_to |-> Round6(dmx_to),
   slot_name |-> name]

ChannelDef(name, is_fine_byte, slots) ==
  [name |-> name, is_fine_byte |-> is_fine_byte, slots |-> slots]

\* Python's None where a str is expected: no str equals it, since every
\* element of a str is one character
None == <<"None">>

\* an object handed to the builder in place of a ChannelSlot that lacks the
\* attribute physical_from
SlotWithoutPhysicalFrom(name, dmx_from, dmx_to) ==
  [name |-> name, dmx_from |-> dmx_from, dmx_to |-> dmx_to,
   physical_to |-> Round6(dmx_to), slot_name |-> name]

----------------------------------------------------------------------------
(* State *)

VARIABLES
  san,               \* one call of _safe_xml_name: text, fallback, result
  res,               \* one call of resolve_attr: raw, result
  modes,             \* st.session_state.modes: <<[name, channel_list], ...>>, channel_list a reference
  heap,              \* the list objects the editor holds, by reference
  ops,               \* the mode operations done so far in the editor session
  parsed,            \* the parser record handed to parsed_dict_to_modes
  claude,            \* one call of parse_pdf_with_claude: conversation, chunks, requests
  repair,            \* one call of _repair_truncated_json: text, result
  plumber,           \* the table loop of parse_pdf_with_pdfplumber: rows, channels, current
  args,              \* build_gdtf's arguments fixture_name and manufacturer
  modes_dict,        \* build_gdtf's argument: <<[name, channels], ...>> in dict order
  pc,                \* position in build_gdtf and its caller
  ft,                \* the attributes of the FixtureType element
  attr_defs,         \* the AttributeDefinitions element
  out,               \* what the completed calls returned: xml_data and gdtf_bytes
  used_attrs,        \* dict attr -> (fg, feat, ag), in insertion order
  wheel_registry,    \* dict attr -> wheel name, in insertion order
  wheels_el,         \* the Wheel elements under <Wheels>
  dmx_modes_el,      \* the DMXMode elements under <DMXModes>
  mi,                \* index of the mode the outer loop is at
  ci,                \* index of the channel the inner loop is at
  offset,            \* local offset
  prev_ch_el,        \* local prev_ch_el: index into the mode's DMXChannels, 0 = None
  prev_offset_start  \* local prev_offset_start, 0 = None

front_vars == <<modes, heap, ops, parsed, claude, repair, plumber>>
build_vars_only == <<args, modes_dict, pc, ft, attr_defs, out, used_attrs, wheel_registry,
                     wheels_el, dmx_modes_el, mi, ci, offset, prev_ch_el, prev_offset_start>>
build_vars == <<front_vars, args, modes_dict, pc, ft, attr_defs, out, used_attrs, wheel_registry,
                wheels_el, dmx_modes_el, mi, ci, offset, prev_ch_el, prev_offset_start>>
vars == <<san, res, modes, heap, ops, parsed, claude, repair, plumber,
          args, modes_dict, pc, ft, attr_defs, out, used_attrs, wheel_registry,
          wheels_el, dmx_modes_el, mi, ci, offset, prev_ch_el, prev_offset_start>>

NoCall == [pc |-> "none"]

NoArgs == [fixture_name |-> <<>>, manufacturer |-> <<>>]

\* no editor session and no parser call
EditorIdle == modes = <<>> /\ heap = <<>> /\ ops = <<>>
ParserIdle == parsed = NoCall /\ claude = NoCall /\ repair = NoCall /\ plumber = NoCall

\* no build in progress
BuildIdle ==
  /\ args = NoArgs /\ modes_dict = <<>> /\ pc = "idle"
  /\ ft = <<>> /\ attr_defs = <<>> /\ out = <<>>
  /\ used_attrs = <<>> /\ wheel_registry = <<>> /\ wheels_el = <<>>
  /\ dmx_modes_el = <<>>
  /\ mi = 0 /\ ci = 0 /\ offset = 0 /\ prev_ch_el = 0 /\ prev_offset_start = 0

----------------------------------------------------------------------------
(* _safe_xml_name as a call *)

MaxTextLen == 3

SeqsUpTo(S, n) == UNION {[1..k -> S] : k \in 0..n}

\* one character of each class the function tells apart
SafeAlphabet == {"a", "Z", "7", "_", " ", "-", ".", ":", "%", "/", "°", "!"}

SafeSamples ==
  { <<"G","o","b","o"," ","W","h","e","e","l">>,
    <<"1","0"," ","C","h","a","n","n","e","l">>,
    <<"P","a","n","/","T","i","l","t">>,
    <<"4","5","°">>, <<"°">>, <<"/">>, <<":">>, <<";">>, <<"a",":","b",";">>,
    <<"-","Z","o","o","m">>, <<"1","6","-","b","i","t">> }

SafeTexts == SeqsUpTo(SafeAlphabet, MaxTextLen) \cup SafeSamples

\* the fallbacks the program passes: "Ch" (default), f"Ch{offset}", "Slot",
\* f"Slot{slot_idx}", "Mode", "Fixture", "Generic", and a wheel attribute
Fallbacks ==
  { <<"C","h">>, <<"S","l","o","t">>, <<"M","o","d","e">>,
    <<"F","i","x","t","u","r","e">>, <<"G","e","n","e","r","i","c">> }
  \cup { <<"C","h">> \o Str(n) : n \in {1, 12} }
  \cup { <<"S","l","o","t">> \o Str(n) : n \in {1, 12} }
  \cup WHEEL_ATTRS

InitSafe ==
  /\ \E t \in SafeTexts, f \in Fallbacks :
       san = [pc |-> "call", text |-> t, fallback |-> f, out |-> <<>>]
  /\ res = NoCall
  /\ EditorIdle /\ ParserIdle
  /\ BuildIdle

SafeXmlName ==
  /\ san.pc = "call"
  /\ san' = [san EXCEPT !.out = _safe_xml_name(san.text, san.fallback), !.pc = "ret"]
  /\ UNCHANGED <<res, build_vars>>

NextSafe == SafeXmlName

SpecSafe == InitSafe /\ [][NextSafe]_vars

----------------------------------------------------------------------------
(* resolve_attr as a call *)

MaxRawLen == 3

Keys == {ATTR_MAP[i].key : i \in DOMAIN ATTR_MAP}

upper(s) ==
  [i \in 1..Len(s) |->
     IF s[i] \in LowerSet
       THEN UPPER[CHOOSE k \in 1..Len(LOWER) : LOWER[k] = s[i]]
       ELSE s[i]]

\* short names over the letters of the keys "uv" and "red", a space, a
\* symbol, an underscore and a digit
RawAlphabet == {"u", "V", "r", "e", "d", " ", "!", "_", "1"}

\* words met before and after a table term in channel labels
RawBefore == { <<>>, <<" ">>, <<"x">>, <<"s","p","e","e","d"," ">>, <<"g","o","b","o"," ">> }
RawAfter ==
  { <<>>, <<" ">>, <<"s">>, <<" ","2">>, <<" ","f","i","n","e">>,
    <<" ","s","p","e","e","d">>, <<" ","m","i","x">>, <<" ","r","a","t","e">>,
    <<" ","r","o","t","a","t","i","o","n">> }

RawNames ==
  SeqsUpTo(RawAlphabet, MaxRawLen)
  \cup { b \o k \o a : b \in RawBefore, k \in Keys, a \in RawAfter }
  \cup { upper(b \o k \o a) : b \in RawBefore, k \in Keys, a \in {<<>>, <<" ","2">>} }

InitResolve ==
  /\ \E r \in RawNames : res = [pc |-> "call", raw |-> r, out |-> <<>>]
  /\ san = NoCall
  /\ EditorIdle /\ ParserIdle
  /\ BuildIdle

ResolveAttr ==
  /\ res.pc = "call"
  /\ res' = [res EXCEPT !.out = resolve_attr(res.raw), !.pc = "ret"]
  /\ UNCHANGED <<san, build_vars>>

NextResolve == ResolveAttr

SpecResolve == InitResolve /\ [][NextResolve]_vars

----------------------------------------------------------------------------
(* build_gdtf: its input *)

MaxModes == 2
MaxChannels == 4

Dot == <<".">>

\* channel entries for the offset allocation: two continuous channels, a
\* fine byte and a blank-named row
ChannelPool ==
  { ChannelDef(<<"D","i","m","m","e","r">>, FALSE, <<>>),
    ChannelDef(<<"D","i","m","m","e","r"," ","F","i","n","e">>, TRUE, <<>>),
    ChannelDef(<<"R","e","d">>, FALSE, <<>>),
    ChannelDef(<<" ">>, FALSE, <<>>) }

\* channel entries for the wheels: two differently labelled stepped channels
\* of one wheel-capable attribute, a fine byte that carries slots, and a
\* blank-named row that carries a slot
WheelPool ==
  { ChannelDef(<<"G","o","b","o"," ","W","h","e","e","l">>, FALSE,
               << ChannelSlot(<<"O","p","e","n">>, 0, 9),
                  ChannelSlot(<<"S","t","a","r">>, 10, 255) >>),
    ChannelDef(<<"G","o","b","o">>, FALSE,
               << ChannelSlot(<<"D","o","t","s">>, 0, 127) >>),
    ChannelDef(<<"G","o","b","o"," ","F","i","n","e">>, TRUE,
               << ChannelSlot(<<"D","o","t","s">>, 0, 127) >>),
    ChannelDef(<<" ">>, FALSE,
               << ChannelSlot(<<"O","p","e","n">>, 0, 255) >>) }

MaxDocChannels == 3

\* channel entries whose wheels share a name: two labels of one attribute
\* ("Gobo Wheel" and "Gobo.2" are Gobo1) and two attributes of one sanitised
\* label ("Gobo 2" is Gobo2, "Gobo.2" is Gobo1, both give "Gobo_2"), with a
\* fine byte and a blank-named row that carry slots
CollidePool ==
  { ChannelDef(<<"G","o","b","o"," ","W","h","e","e","l">>, FALSE,
                << ChannelSlot(<<"O","p","e","n">>, 0, 9),
                   ChannelSlot(<<"S","t","a","r">>, 10, 255) >>),
    ChannelDef(<<"G","o","b","o"," ","2">>, FALSE,
                << ChannelSlot(<<"D","o","t","s">>, 0, 127) >>),
    ChannelDef(<<"G","o","b","o",".","2">>, FALSE,
                << ChannelSlot(<<"R","e","d">>, 0, 9),
                   ChannelSlot(<<"B","l","u","e">>, 10, 19),
                   ChannelSlot(<<"S","t","a","r">>, 20, 255) >>),
    ChannelDef(<<"G","o","b","o"," ","F","i","n","e">>, TRUE,
                << ChannelSlot(<<"D","o","t","s">>, 0, 127) >>),
    ChannelDef(<<" ">>, FALSE,
                << ChannelSlot(<<"O","p","e","n">>, 0, 255) >>) }

\* channel entries for the names of the document: a name and a slot label
\* that sanitise to nothing, a dotted name, a stepped channel of a
\* wheel-capable attribute and one of another attribute, a fine byte and a
\* blank-named row
NamesPool ==
  { ChannelDef(<<"!","!","!">>, FALSE, <<>>),
    ChannelDef(<<"M","a","c","r","o">>, FALSE,
                << ChannelSlot(<<"!","!">>, 0, 9),
                   ChannelSlot(<<"G","o">>, 10, 255) >>),
    ChannelDef(<<"P","a","n">>, FALSE,
                << ChannelSlot(<<"L","e","f","t">>, 0, 127) >>),
    ChannelDef(<<"P","a","n",".","T","i","l","t">>, FALSE, <<>>),
    ChannelDef(<<"M","a","c","r","o"," ","F","i","n","e">>, TRUE, <<>>),
    ChannelDef(<<" ">>, FALSE, <<>>) }

\* channel entries for the attribute definitions: two attributes of one
\* activation group, a table attribute and a custom name that resolve to the
\* same attribute with different groups, a fine byte with a wheel-capable
\* name and slots, and a blank-named row
AttrsPool ==
  { ChannelDef(<<"P","a","n">>, FALSE, <<>>),
    ChannelDef(<<"T","i","l","t">>, FALSE, <<>>),
    ChannelDef(<<"x","y","z"," ","x">>, FALSE, <<>>),
    ChannelDef(<<"X","Y","Z","_","X">>, FALSE, <<>>),
    ChannelDef(<<"G","o","b","o"," ","F","i","n","e">>, TRUE,
                << ChannelSlot(<<"D","o","t","s">>, 0, 127) >>),
    ChannelDef(<<" ">>, FALSE, <<>>) }

\* channel entries for the shape of the input: a channel whose name is None,
\* a fine byte whose name is None, a stepped channel and a blank-named row
\* with a slot that lacks physical_from, a well-formed channel and a
\* well-formed fine byte
ShapePool ==
  { ChannelDef(<<"D","i","m","m","e","r">>, FALSE, <<>>),
    ChannelDef(<<"D","i","m","m","e","r"," ","F","i","n","e">>, TRUE, <<>>),
    ChannelDef(None, FALSE, <<>>),
    ChannelDef(None, TRUE, <<>>),
    ChannelDef(<<"G","o","b","o">>, FALSE,
               << SlotWithoutPhysicalFrom(<<"D","o","t","s">>, 0, 127) >>),
    ChannelDef(<<" ">>, FALSE,
               << SlotWithoutPhysicalFrom(<<"O","p","e","n">>, 0, 255) >>) }

\* the entries of CollidePool and a channel whose name is None
\* the channel list of the round-trip scenario: [Dimmer, Red, Green, Blue,
\* Strobe(slots=[(0, 9, "Closed"), (10, 255, "Open")])]
Par64Channels ==
  << ChannelDef(<<"D","i","m","m","e","r">>, FALSE, <<>>),
     ChannelDef(<<"R","e","d">>, FALSE, <<>>),
     ChannelDef(<<"G","r","e","e","n">>, FALSE, <<>>),
     ChannelDef(<<"B","l","u","e">>, FALSE, <<>>),
     ChannelDef(<<"S","t","r","o","b","e">>, FALSE,
                << ChannelSlot(<<"C","l","o","s","e","d">>, 0, 9),
                   ChannelSlot(<<"O","p","e","n">>, 10, 255) >>) >>

\* rows an editor session may hold between them: a fine byte and a
\* blank-named row; at most MaxExtras of them in one list
Par64Extras ==
  { ChannelDef(<<"D","i","m","m","e","r"," ","F","i","n","e">>, TRUE, <<>>),
    ChannelDef(<<" ">>, FALSE, <<>>) }
MaxExtras == 2

\* chs with extra[i] put after its entry i
RECURSIVE interleave(_, _, _)
interleave(chs, extra, i) ==
  IF i > Len(chs) THEN <<>>
  ELSE <<chs[i]>> \o extra[i] \o interleave(chs, extra, i + 1)

\* modes_dict is {"8ch": the scenario's list, with at most MaxExtras rows
\* added}
IsPar64Input(md) ==
  \E extra \in [DOMAIN Par64Channels -> {<<>>} \cup {<<e>> : e \in Par64Extras}] :
    /\ Cardinality({i \in DOMAIN extra : extra[i] # <<>>}) <= MaxExtras
    /\ md = << [name     |-> <<"8","c","h">>,
                channels |-> interleave(Par64Channels, extra, 1)] >>

CollideInputs == CollidePool \cup {ChannelDef(None, FALSE, <<>>)}

\* the editor's names: "10 Channel" for the initial mode, f"Mode {n}" for an
\* added one
ModeName(k) ==
  IF k = 1 THEN <<"1","0"," ","C","h","a","n","n","e","l">>
  ELSE <<"M","o","d","e"," ">> \o Str(k)

\* resolve_attr is a pure function of the name: its value for each name a
\* channel can carry, evaluated once
ChannelNames ==
  {c.name : c \in ChannelPool \cup WheelPool \cup CollidePool \cup NamesPool \cup AttrsPool
                  \cup ShapePool \cup Range(Par64Channels)} \ {None}
ResolveTable == [n \in ChannelNames |-> resolve_attr(n)]
resolved(name) == ResolveTable[name]

RECURSIVE Sum(_, _)
Sum(f, n) == IF n = 0 THEN 0 ELSE f[n] + Sum(f, n - 1)

\* modes_dict is a mapping of 1..MaxModes modes that hold at most MaxChannels
\* entries of the pool in all
IsBuildInputOf(md, pool, max_channels) ==
  \E n \in 1..MaxModes :
    \E lens \in [1..n -> 0..max_channels] :
      /\ Sum(lens, n) <= max_channels
      /\ \E chs \in [{mk \in (1..n) \X (1..max_channels) : mk[2] <= lens[mk[1]]} -> pool] :
           md = [m \in 1..n |->
                   [name     |-> ModeName(m),
                    channels |-> [k \in 1..lens[m] |-> chs[<<m, k>>]]]]

IsBuildInput(md, pool) == IsBuildInputOf(md, pool, MaxChannels)

----------------------------------------------------------------------------
(* build_gdtf: the FixtureType header *)

HEXDIGITS == <<"0","1","2","3","4","5","6","7","8","9","A","B","C","D","E","F">>

\* uuid.UUID(int=n).hex.upper(): width hexadecimal digits, zero padded
RECURSIVE Hex(_, _)
Hex(n, width) ==
  IF width = 0 THEN <<>>
  ELSE Hex(n \div 16, width - 1) \o <<HEXDIGITS[(n % 16) + 1]>>

\* the 8-4-4-4-12 grouping of the 32 digits of the drawn value
_guid(uuid4) ==
  LET raw == Hex(uuid4, 32)
  IN SubSeq(raw, 1, 8) \o <<"-">> \o SubSeq(raw, 9, 12) \o <<"-">> \o
     SubSeq(raw, 13, 16) \o <<"-">> \o SubSeq(raw, 17, 20) \o <<"-">> \o
     SubSeq(raw, 21, 32)

\* re.sub(r'[^A-Z0-9]', '', safe_name.upper())[:8] or "FIXTURE"
safe_short(safe_name) ==
  LET kept == SelectSeq(upper(safe_name), LAMBDA c : c \in UpperSet \cup DigitSet)
      cut  == SubSeq(kept, 1, IF Len(kept) < 8 THEN Len(kept) ELSE 8)
  IN IF cut = <<>> THEN <<"F","I","X","T","U","R","E">> ELSE cut

\* the attributes of the FixtureType element
fixture_type(fixture_name, manufacturer, id) ==
  LET safe_name == _safe_xml_name(fixture_name, <<"F","i","x","t","u","r","e">>)
  IN [Name            |-> safe_name,
      ShortName       |-> safe_short(safe_name),
      LongName        |-> safe_name,
      Manufacturer    |-> _safe_xml_name(manufacturer, <<"G","e","n","e","r","i","c">>),
      Description     |-> "Generated by GDTF Builder",
      FixtureTypeID   |-> id,
      Thumbnail       |-> "",
      RefFT           |-> "",
      CanHaveChildren |-> "No"]

----------------------------------------------------------------------------
(* build_gdtf: AttributeDefinitions *)

\* the characters in code-point order, for sorted()
CodeOrder ==
  <<" ","!","%","-",".","/">> \o DIGITS \o <<":",";">> \o UPPER \o <<"_">> \o LOWER \o <<"°">>

Ord(c) == CHOOSE i \in DOMAIN CodeOrder : CodeOrder[i] = c

\* a < b for two Python strings
RECURSIVE StrLess(_, _)
StrLess(a, b) ==
  IF b = <<>> THEN FALSE
  ELSE IF a = <<>> THEN TRUE
  ELSE IF Head(a) = Head(b) THEN StrLess(Tail(a), Tail(b))
  ELSE Ord(Head(a)) < Ord(Head(b))

\* sorted(feats) for a set of strings
RECURSIVE sorted(_)
sorted(feats) ==
  IF feats = {} THEN <<>>
  ELSE LET least == CHOOSE f \in feats : \A g \in feats \ {f} : StrLess(f, g)
       IN <<least>> \o sorted(feats \ {least})

\* one ActivationGroup per activation group not yet in ag_seen
RECURSIVE activation_groups(_, _)
activation_groups(ua, ag_xml) ==
  IF ua = <<>> THEN ag_xml
  ELSE activation_groups(Tail(ua),
         IF \E i \in DOMAIN ag_xml : ag_xml[i].Name = Head(ua).ag
           THEN ag_xml
           ELSE Append(ag_xml, [Name |-> Head(ua).ag]))

\* fg_used.setdefault(fg, set()).add(feat), a dict in insertion order
RECURSIVE feature_sets(_, _)
feature_sets(ua, fg_used) ==
  IF ua = <<>> THEN fg_used
  ELSE LET e == Head(ua)
       IN feature_sets(Tail(ua),
            IF \E i \in DOMAIN fg_used : fg_used[i].fg = e.fg
              THEN [i \in DOMAIN fg_used |->
                      IF fg_used[i].fg = e.fg
                        THEN [fg_used[i] EXCEPT !.feats = @ \cup {e.feat}]
                        ELSE fg_used[i]]
              ELSE Append(fg_used, [fg |-> e.fg, feats |-> {e.feat}]))

feature_groups(ua) ==
  LET fg_used == feature_sets(ua, <<>>)
  IN [i \in DOMAIN fg_used |->
        [Name     |-> fg_used[i].fg,
         Pretty   |-> fg_used[i].fg,
         Features |-> LET fs == sorted(fg_used[i].feats)
                      IN [k \in DOMAIN fs |-> [Name |-> fs[k]]]]]

attributes(ua) ==
  [i \in DOMAIN ua |->
     [Name            |-> ua[i].attr,
      Pretty          |-> ua[i].attr,
      ActivationGroup |-> ua[i].ag,
      Feature         |-> ua[i].fg \o Dot \o ua[i].feat,
      PhysicalUnit    |-> "None",
      Color           |-> "0.3127,0.3290,100.000000"]]

attribute_definitions(ua) ==
  [ActivationGroups |-> activation_groups(ua, <<>>),
   FeatureGroups    |-> feature_groups(ua),
   Attributes       |-> attributes(ua)]

\* lines 276-283: the Geometries block
geometries ==
  << [Name     |-> <<"B","o","d","y">>,
      Model    |-> "",
      Position |-> "1,0,0,0 0,1,0,0 0,0,1,0 0,0,0,1"] >>

----------------------------------------------------------------------------
(* build_gdtf: the passes before the DMX modes *)

\* the channels of all modes, in the order the nested loops visit them
RECURSIVE AllChannels(_)
AllChannels(md) ==
  IF md = <<>> THEN <<>> ELSE Head(md).channels \o AllChannels(Tail(md))

IsBlank(name) == strip(name, Whitespace) = <<>>

\* d[key] = val for a dict held as a sequence of entries in insertion order
DictSet(d, entry) ==
  IF \E i \in DOMAIN d : d[i].attr = entry.attr
    THEN [i \in DOMAIN d |-> IF d[i].attr = entry.attr THEN entry ELSE d[i]]
    ELSE Append(d, entry)

\* wheel_registry.get(attr, ""): the empty name stands for a missing key
registry_get(reg, attr) ==
  IF \E i \in DOMAIN reg : reg[i].attr = attr
    THEN reg[CHOOSE i \in DOMAIN reg : reg[i].attr = attr].wname
    ELSE <<>>

\* mutant of collect_attrs: fine bytes are resolved too
RECURSIVE collect_attrs_with_fine(_, _)
collect_attrs_with_fine(chs, acc) ==
  IF chs = <<>> THEN acc
  ELSE LET ch == Head(chs)
       IN collect_attrs_with_fine(Tail(chs),
            IF ~IsBlank(ch.name)
              THEN DictSet(acc, resolved(ch.name))
              ELSE acc)

\* used_attrs[attr] = (fg, feat, ag) for every non-fine, non-blank channel
RECURSIVE collect_attrs(_, _)
collect_attrs(chs, acc) ==
  IF chs = <<>> THEN acc
  ELSE LET ch == Head(chs)
       IN collect_attrs(Tail(chs),
            IF ~ch.is_fine_byte /\ ~IsBlank(ch.name)
              THEN DictSet(acc, resolved(ch.name))
              ELSE acc)

\* mutant of register_wheels: a later channel overwrites the wheel name
RECURSIVE register_wheels_last_wins(_, _)
register_wheels_last_wins(chs, reg) ==
  IF chs = <<>> THEN reg
  ELSE LET ch   == Head(chs)
           attr == resolved(ch.name).attr
       IN register_wheels_last_wins(Tail(chs),
            IF ch.is_fine_byte \/ ch.slots = <<>> THEN reg
            ELSE IF attr \notin WHEEL_ATTRS THEN reg
            ELSE Append(SelectSeq(reg, LAMBDA r : r.attr # attr),
                        [attr |-> attr, wname |-> _safe_xml_name(ch.name, attr)]))

\* wheel_registry[attr] = _safe_xml_name(ch.name, attr), first channel wins
RECURSIVE register_wheels(_, _)
register_wheels(chs, reg) ==
  IF chs = <<>> THEN reg
  ELSE LET ch   == Head(chs)
           attr == resolved(ch.name).attr
       IN register_wheels(Tail(chs),
            IF ch.is_fine_byte \/ ch.slots = <<>> THEN reg
            ELSE IF attr \notin WHEEL_ATTRS \/ (\E i \in DOMAIN reg : reg[i].attr = attr)
              THEN reg
            ELSE Append(reg, [attr |-> attr, wname |-> _safe_xml_name(ch.name, attr)]))

\* mutant of wheel_element: the implicit first Slot is left out
wheel_element_no_open(wname, ch) ==
  [Name  |-> wname,
   Slots |-> [k \in 1..Len(ch.slots) |->
                _safe_xml_name(ch.slots[k].slot_name, <<"S","l","o","t">>)]]

\* one Wheel element per wheel name: "Open", then the channel's slots
wheel_element(wname, ch) ==
  [Name  |-> wname,
   Slots |-> <<<<"O","p","e","n">>>> \o
             [k \in 1..Len(ch.slots) |->
                _safe_xml_name(ch.slots[k].slot_name, <<"S","l","o","t">>)]]

\* mutant of write_wheels: no test for a Wheel of that name
RECURSIVE write_wheels_every_channel(_, _, _)
write_wheels_every_channel(chs, reg, wheels) ==
  IF chs = <<>> THEN wheels
  ELSE LET ch    == Head(chs)
           wname == registry_get(reg, resolved(ch.name).attr)
       IN write_wheels_every_channel(Tail(chs), reg,
            IF ch.is_fine_byte \/ ch.slots = <<>> THEN wheels
            ELSE IF wname = <<>> THEN wheels
            ELSE Append(wheels, wheel_element(wname, ch)))

RECURSIVE write_wheels(_, _, _)
write_wheels(chs, reg, wheels) ==
  IF chs = <<>> THEN wheels
  ELSE LET ch    == Head(chs)
           wname == registry_get(reg, resolved(ch.name).attr)
       IN write_wheels(Tail(chs), reg,
            IF ch.is_fine_byte \/ ch.slots = <<>> THEN wheels
            ELSE IF wname = <<>> THEN wheels
            ELSE IF \E i \in DOMAIN wheels : wheels[i].Name = wname THEN wheels
            ELSE Append(wheels, wheel_element(wname, ch)))

----------------------------------------------------------------------------
(* build_gdtf: one DMXChannel *)

Slash1 == <<"/","1">>

\* mutant of slot_function: Wheel names the channel, not the wheel
\* registered for the attribute
slot_function_own_wheel(ch, attr, wname, slot_idx) ==
  LET slot == ch.slots[slot_idx]
      cf == [Name              |-> _safe_xml_name(slot.name, <<"S","l","o","t">> \o Str(slot_idx)),
             Attribute         |-> attr,
             OriginalAttribute |-> _safe_xml_name(ch.name, <<"C","h">>),
             DMXFrom           |-> Str(slot.dmx_from) \o Slash1,
             Default           |-> Str(slot.dmx_from) \o Slash1,
             PhysicalFrom      |-> slot.physical_from,
             PhysicalTo        |-> slot.physical_to,
             RealFade          |-> <<"0">>,
             RealAcceleration  |-> <<"0">>,
             WheelSlotIndex    |-> IF wname # <<>> THEN Str(slot_idx) ELSE <<"0">>]
  IN IF wname # <<>>
       THEN cf @@ ("Wheel" :> _safe_xml_name(ch.name, <<"W","h","e","e","l">>))
       ELSE cf

\* mutant of slot_function: the slot position is written to WheelSlotIndex
\* whether or not the attribute has a wheel
slot_function_always_indexed(ch, attr, wname, slot_idx) ==
  LET slot == ch.slots[slot_idx]
      cf == [Name              |-> _safe_xml_name(slot.name, <<"S","l","o","t">> \o Str(slot_idx)),
             Attribute         |-> attr,
             OriginalAttribute |-> _safe_xml_name(ch.name, <<"C","h">>),
             DMXFrom           |-> Str(slot.dmx_from) \o Slash1,
             Default           |-> Str(slot.dmx_from) \o Slash1,
             PhysicalFrom      |-> slot.physical_from,
             PhysicalTo        |-> slot.physical_to,
             RealFade          |-> <<"0">>,
             RealAcceleration  |-> <<"0">>,
             WheelSlotIndex    |-> Str(slot_idx)]
  IN IF wname # <<>> THEN cf @@ ("Wheel" :> wname) ELSE cf

\* the ChannelFunction of the slot at 1-based position slot_idx
slot_function(ch, attr, wname, slot_idx) ==
  LET slot == ch.slots[slot_idx]
      cf == [Name              |-> _safe_xml_name(slot.name, <<"S","l","o","t">> \o Str(slot_idx)),
             Attribute         |-> attr,
             OriginalAttribute |-> _safe_xml_name(ch.name, <<"C","h">>),
             DMXFrom           |-> Str(slot.dmx_from) \o Slash1,
             Default           |-> Str(slot.dmx_from) \o Slash1,
             PhysicalFrom      |-> slot.physical_from,
             PhysicalTo        |-> slot.physical_to,
             RealFade          |-> <<"0">>,
             RealAcceleration  |-> <<"0">>,
             WheelSlotIndex    |-> IF wname # <<>> THEN Str(slot_idx) ELSE <<"0">>]
  IN IF wname # <<>> THEN cf @@ ("Wheel" :> wname) ELSE cf

\* the single ChannelFunction of a channel without slots; physical values in
\* millionths
plain_function(ch, attr) ==
  [Name              |-> attr,
   Attribute         |-> attr,
   OriginalAttribute |-> _safe_xml_name(ch.name, <<"C","h">>),
   DMXFrom           |-> <<"0">> \o Slash1,
   Default           |-> <<"0">> \o Slash1,
   PhysicalFrom      |-> 0,
   PhysicalTo        |-> 1000000,
   RealFade          |-> <<"0">>,
   RealAcceleration  |-> <<"0">>,
   WheelSlotIndex    |-> <<"0">>]

cf_list_of(ch, attr, reg) ==
  IF ch.slots # <<>>
    THEN LET wname == registry_get(reg, attr)
         IN [k \in 1..Len(ch.slots) |-> slot_function(ch, attr, wname, k)]
    ELSE <<plain_function(ch, attr)>>

\* mutant of channel_element: the channel segment of InitialFunction is the
\* raw name
channel_element_raw_name(safe_mode, ch, pos, off, reg) ==
  LET attr    == resolved(ch.name).attr
      cf_list == cf_list_of(ch, attr, reg)
  IN [src             |-> pos,
      DMXBreak        |-> <<"1">>,
      Offset          |-> <<off>>,
      Default         |-> cf_list[1].Default,
      Geometry        |-> <<"B","o","d","y">>,
      InitialFunction |-> safe_mode \o Dot \o ch.name \o Dot \o attr \o Dot \o cf_list[1].Name,
      LogicalChannel  |-> [Attribute |-> attr, ChannelFunctions |-> cf_list]]

\* the DMXChannel element of the channel at position pos of its mode, emitted
\* at offset off; src keeps the position of the entry that produced it, and
\* Offset is held as the list of its comma-separated values
channel_element(safe_mode, ch, pos, off, reg) ==
  LET attr    == resolved(ch.name).attr
      safe_ch == _safe_xml_name(ch.name, <<"C","h">> \o Str(off))
      cf_list == cf_list_of(ch, attr, reg)
  IN [src             |-> pos,
      DMXBreak        |-> <<"1">>,
      Offset          |-> <<off>>,
      Default         |-> cf_list[1].Default,
      Geometry        |-> <<"B","o","d","y">>,
      InitialFunction |-> safe_mode \o Dot \o safe_ch \o Dot \o attr \o Dot \o cf_list[1].Name,
      LogicalChannel  |-> [Attribute |-> attr, ChannelFunctions |-> cf_list]]

----------------------------------------------------------------------------
(* build_gdtf as a process *)

\* what build_gdtf returns: the serialised tree
xml_data ==
  [declaration |-> "<?xml version=\"1.0\" encoding=\"UTF-8\"?>",
   GDTF |-> [DataVersion |-> "1.1",
             FixtureType |-> [attributes           |-> ft,
                              AttributeDefinitions |-> attr_defs,
                              Wheels               |-> wheels_el,
                              Geometries           |-> geometries,
                              DMXModes             |-> dmx_modes_el]]]

\* the archive: one stored entry, stamped with the local time of the call
create_gdtf_package(xml_content, date_time) ==
  << [filename      |-> "description.xml",
      compress_type |-> "ZIP_STORED",
      date_time     |-> date_time,
      data          |-> xml_content] >>

\* uuid4() draws any value: one drawn by an earlier call of this run, or a
\* new one (values named in order of first appearance)
Uuid4Values == 1..(Len(out) + 1)

\* time.localtime() at packaging, in the archive's two-second units: the
\* reading of the previous call or a later one (named in order)
LocalTimes ==
  IF out = <<>> THEN {0}
  ELSE LET last == out[Len(out)].gdtf_bytes[1].date_time
       IN {last, last + 1}

\* the fixture name and the manufacturer of the calls
EditorArgs == [fixture_name |-> <<"P","a","r","6","4">>, manufacturer |-> <<"A","c","m","e">>]

\* the locals and the results at the first call of build_gdtf
Called ==
  /\ san = NoCall
  /\ res = NoCall
  /\ EditorIdle /\ ParserIdle
  /\ pc = "start"
  /\ ft = <<>> /\ attr_defs = <<>> /\ out = <<>>
  /\ used_attrs = <<>> /\ wheel_registry = <<>> /\ wheels_el = <<>>
  /\ dmx_modes_el = <<>>
  /\ mi = 0 /\ ci = 0 /\ offset = 0 /\ prev_ch_el = 0 /\ prev_offset_start = 0

InitBuildOf(pool, max_channels) ==
  /\ args = EditorArgs
  /\ IsBuildInputOf(modes_dict, pool, max_channels)
  /\ Called

InitBuild(pool) ==
  /\ san = NoCall
  /\ res = NoCall
  /\ EditorIdle /\ ParserIdle
  /\ args = EditorArgs
  /\ IsBuildInput(modes_dict, pool)
  /\ pc = "start"
  /\ ft = <<>> /\ attr_defs = <<>> /\ out = <<>>
  /\ used_attrs = <<>> /\ wheel_registry = <<>> /\ wheels_el = <<>>
  /\ dmx_modes_el = <<>>
  /\ mi = 0 /\ ci = 0 /\ offset = 0 /\ prev_ch_el = 0 /\ prev_offset_start = 0

NoFault == [type |-> "", message |-> <<>>]

\* AttributeError: '<class>' object has no attribute '<attribute>'
AttributeError(class, attribute) ==
  [type    |-> "AttributeError",
   message |-> <<"'">> \o class \o
               <<"'"," ","o","b","j","e","c","t"," ","h","a","s"," ","n","o"," ",
                 "a","t","t","r","i","b","u","t","e"," ","'">> \o attribute \o <<"'">>]

NoneType == <<"N","o","n","e","T","y","p","e">>

\* the exception the step at hand raises, NoFault if it raises none:
\* ch.name.strip() of a None name at line 192 (non-fine channels only: the
\* test short-circuits on is_fine_byte) and at line 299, slot.physical_from
\* of an object without it at line 327
Fault ==
  IF pc = "attrs"
    THEN IF \E ch \in Range(AllChannels(modes_dict)) : ~ch.is_fine_byte /\ ch.name = None
           THEN AttributeError(NoneType, <<"s","t","r","i","p">>)
           ELSE NoFault
  ELSE IF pc = "channel" /\ ci <= Len(modes_dict[mi].channels)
    THEN LET ch == modes_dict[mi].channels[ci]
         IN IF ch.name = None
              THEN AttributeError(NoneType, <<"s","t","r","i","p">>)
            ELSE IF /\ ~IsBlank(ch.name)
                    /\ ~ch.is_fine_byte
                    /\ \E k \in DOMAIN ch.slots : "physical_from" \notin DOMAIN ch.slots[k]
              THEN AttributeError(<<"C","h","a","n","n","e","l","S","l","o","t">>,
                                  <<"p","h","y","s","i","c","a","l","_","f","r","o","m">>)
            ELSE NoFault
  ELSE NoFault

\* the exception leaves build_gdtf; the callers (1252-1280, 1793-1819) show
\* it and have neither xml_data nor gdtf_bytes
Raise ==
  /\ Fault # NoFault
  /\ out' = Append(out, [raised |-> Fault])
  /\ pc' = "raised"
  /\ UNCHANGED <<san, res, front_vars, args, ft, attr_defs, modes_dict, used_attrs, wheel_registry,
                 wheels_el, dmx_modes_el, mi, ci, offset, prev_ch_el, prev_offset_start>>

\* lines 168-186
BeginBuild ==
  /\ pc = "start"
  /\ \E uuid4 \in Uuid4Values :
       ft' = fixture_type(args.fixture_name, args.manufacturer, _guid(uuid4))
  /\ pc' = "attrs"
  /\ UNCHANGED <<san, res, front_vars, args, attr_defs, out, modes_dict, used_attrs, wheel_registry,
                 wheels_el, dmx_modes_el, mi, ci, offset, prev_ch_el, prev_offset_start>>

\* lines 189-224
CollectAttrs ==
  /\ pc = "attrs"
  /\ Fault = NoFault
  /\ used_attrs' = collect_attrs(AllChannels(modes_dict), <<>>)
  /\ attr_defs' = attribute_definitions(used_attrs')
  /\ pc' = "registry"
  /\ UNCHANGED <<san, res, front_vars, args, ft, out, modes_dict, wheel_registry, wheels_el, dmx_modes_el,
                 mi, ci, offset, prev_ch_el, prev_offset_start>>

\* lines 229-239
RegisterWheels ==
  /\ pc = "registry"
  /\ wheel_registry' = register_wheels(AllChannels(modes_dict), <<>>)
  /\ pc' = "wheels"
  /\ UNCHANGED <<san, res, front_vars, args, ft, attr_defs, out, modes_dict, used_attrs, wheels_el, dmx_modes_el,
                 mi, ci, offset, prev_ch_el, prev_offset_start>>

\* lines 241-263 (and the fixed blocks up to the DMXModes element)
WriteWheels ==
  /\ pc = "wheels"
  /\ wheels_el' = write_wheels(AllChannels(modes_dict), wheel_registry, <<>>)
  /\ dmx_modes_el' = <<>>
  /\ pc' = "mode"
  /\ mi' = 1
  /\ UNCHANGED <<san, res, front_vars, args, ft, attr_defs, out, modes_dict, used_attrs, wheel_registry,
                 ci, offset, prev_ch_el, prev_offset_start>>

\* lines 288-296: the DMXMode element and the loop's locals
BeginMode ==
  /\ pc = "mode"
  /\ mi <= Len(modes_dict)
  /\ dmx_modes_el' = Append(dmx_modes_el,
                            [Name        |-> _safe_xml_name(modes_dict[mi].name, <<"M","o","d","e">>),
                             Geometry    |-> <<"B","o","d","y">>,
                             DMXChannels |-> <<>>,
                             closed      |-> FALSE])
  /\ offset' = 1
  /\ prev_ch_el' = 0
  /\ prev_offset_start' = 0
  /\ ci' = 1
  /\ pc' = "channel"
  /\ UNCHANGED <<san, res, front_vars, args, ft, attr_defs, out, modes_dict, used_attrs, wheel_registry, wheels_el, mi>>

AtChannel ==
  /\ pc = "channel"
  /\ ci <= Len(modes_dict[mi].channels)
  /\ Fault = NoFault

\* mutant of SkipBlank: a blank-named entry consumes an address
SkipBlank_consumes ==
  /\ AtChannel
  /\ IsBlank(modes_dict[mi].channels[ci].name)
  /\ ci' = ci + 1
  /\ offset' = offset + 1
  /\ UNCHANGED <<san, res, front_vars, args, ft, attr_defs, out, modes_dict, pc, used_attrs, wheel_registry, wheels_el,
                 dmx_modes_el, mi, prev_ch_el, prev_offset_start>>

\* lines 299-300
SkipBlank ==
  /\ AtChannel
  /\ IsBlank(modes_dict[mi].channels[ci].name)
  /\ ci' = ci + 1
  /\ UNCHANGED <<san, res, front_vars, args, ft, attr_defs, out, modes_dict, pc, used_attrs, wheel_registry, wheels_el,
                 dmx_modes_el, mi, offset, prev_ch_el, prev_offset_start>>

\* mutant of FineByte: the fine byte gets a DMXChannel of its own
FineByte_emits ==
  /\ AtChannel
  /\ ~IsBlank(modes_dict[mi].channels[ci].name)
  /\ modes_dict[mi].channels[ci].is_fine_byte
  /\ dmx_modes_el' =
       [dmx_modes_el EXCEPT ![mi].DMXChannels =
          Append(@, channel_element(dmx_modes_el[mi].Name,
                                    [modes_dict[mi].channels[ci] EXCEPT !.slots = <<>>],
                                    ci, offset, wheel_registry))]
  /\ offset' = offset + 1
  /\ prev_ch_el' = 0
  /\ ci' = ci + 1
  /\ UNCHANGED <<san, res, front_vars, args, ft, attr_defs, out, modes_dict, pc, used_attrs, wheel_registry, wheels_el,
                 mi, prev_offset_start>>

\* mutant of FineByte: the fine byte consumes no address
FineByte_no_advance ==
  /\ AtChannel
  /\ ~IsBlank(modes_dict[mi].channels[ci].name)
  /\ modes_dict[mi].channels[ci].is_fine_byte
  /\ dmx_modes_el' =
       IF prev_ch_el # 0
         THEN [dmx_modes_el EXCEPT ![mi].DMXChannels[prev_ch_el].Offset =
                                      <<prev_offset_start, offset>>]
         ELSE dmx_modes_el
  /\ offset' = offset
  /\ prev_ch_el' = 0
  /\ ci' = ci + 1
  /\ UNCHANGED <<san, res, front_vars, args, ft, attr_defs, out, modes_dict, pc, used_attrs, wheel_registry, wheels_el,
                 mi, prev_offset_start>>

\* mutant of FineByte: the last emitted element is extended, pending or not
FineByte_last_element ==
  /\ AtChannel
  /\ ~IsBlank(modes_dict[mi].channels[ci].name)
  /\ modes_dict[mi].channels[ci].is_fine_byte
  /\ dmx_modes_el' =
       IF dmx_modes_el[mi].DMXChannels # <<>>
         THEN [dmx_modes_el EXCEPT ![mi].DMXChannels[Len(dmx_modes_el[mi].DMXChannels)].Offset =
                                      <<prev_offset_start, offset>>]
         ELSE dmx_modes_el
  /\ offset' = offset + 1
  /\ prev_ch_el' = 0
  /\ ci' = ci + 1
  /\ UNCHANGED <<san, res, front_vars, args, ft, attr_defs, out, modes_dict, pc, used_attrs, wheel_registry, wheels_el,
                 mi, prev_offset_start>>

\* mutant of FineByte: prev_ch_el is not cleared
FineByte_keeps_pending ==
  /\ AtChannel
  /\ ~IsBlank(modes_dict[mi].channels[ci].name)
  /\ modes_dict[mi].channels[ci].is_fine_byte
  /\ dmx_modes_el' =
       IF prev_ch_el # 0
         THEN [dmx_modes_el EXCEPT ![mi].DMXChannels[prev_ch_el].Offset =
                                      <<prev_offset_start, offset>>]
         ELSE dmx_modes_el
  /\ offset' = offset + 1
  /\ prev_ch_el' = prev_ch_el
  /\ ci' = ci + 1
  /\ UNCHANGED <<san, res, front_vars, args, ft, attr_defs, out, modes_dict, pc, used_attrs, wheel_registry, wheels_el,
                 mi, prev_offset_start>>

\* lines 303-308
FineByte ==
  /\ AtChannel
  /\ ~IsBlank(modes_dict[mi].channels[ci].name)
  /\ modes_dict[mi].channels[ci].is_fine_byte
  /\ dmx_modes_el' =
       IF prev_ch_el # 0
         THEN [dmx_modes_el EXCEPT ![mi].DMXChannels[prev_ch_el].Offset =
                                      <<prev_offset_start, offset>>]
         ELSE dmx_modes_el
  /\ offset' = offset + 1
  /\ prev_ch_el' = 0
  /\ ci' = ci + 1
  /\ UNCHANGED <<san, res, front_vars, args, ft, attr_defs, out, modes_dict, pc, used_attrs, wheel_registry, wheels_el,
                 mi, prev_offset_start>>

\* lines 310-379
EmitChannel ==
  /\ AtChannel
  /\ ~IsBlank(modes_dict[mi].channels[ci].name)
  /\ ~modes_dict[mi].channels[ci].is_fine_byte
  /\ dmx_modes_el' =
       [dmx_modes_el EXCEPT ![mi].DMXChannels =
          Append(@, channel_element(dmx_modes_el[mi].Name, modes_dict[mi].channels[ci],
                                    ci, offset, wheel_registry))]
  /\ prev_ch_el' = Len(dmx_modes_el[mi].DMXChannels) + 1
  /\ prev_offset_start' = offset
  /\ offset' = offset + 1
  /\ ci' = ci + 1
  /\ UNCHANGED <<san, res, front_vars, args, ft, attr_defs, out, modes_dict, pc, used_attrs, wheel_registry, wheels_el, mi>>

\* lines 381-382: Relations and FTMacros close the mode
EndMode ==
  /\ pc = "channel"
  /\ ci > Len(modes_dict[mi].channels)
  /\ dmx_modes_el' = [dmx_modes_el EXCEPT ![mi].closed = TRUE]
  /\ mi' = mi + 1
  /\ pc' = "mode"
  /\ UNCHANGED <<san, res, front_vars, args, ft, attr_defs, out, modes_dict, used_attrs, wheel_registry, wheels_el,
                 ci, offset, prev_ch_el, prev_offset_start>>

\* lines 384-398: revisions, serialisation, return
Finish ==
  /\ pc = "mode"
  /\ mi > Len(modes_dict)
  /\ pc' = "done"
  /\ UNCHANGED <<san, res, front_vars, args, ft, attr_defs, out, modes_dict, used_attrs, wheel_registry, wheels_el,
                 dmx_modes_el, mi, ci, offset, prev_ch_el, prev_offset_start>>

\* lines 401-407, as called at 1257 and 1795
Package ==
  /\ pc = "done"
  /\ \E now \in LocalTimes :
       out' = Append(out, [xml_data   |-> xml_data,
                           gdtf_bytes |-> create_gdtf_package(xml_data, now)])
  /\ pc' = "packed"
  /\ UNCHANGED <<san, res, front_vars, args, ft, attr_defs, modes_dict, used_attrs, wheel_registry,
                 wheels_el, dmx_modes_el, mi, ci, offset, prev_ch_el, prev_offset_start>>

\* how many times the button handler runs on one input, and how many channel
\* entries that input holds
MaxBuilds == 2
MaxRepeatChannels == 2

\* the handler at 1782-1795 runs again on the same session state: a new call
\* of build_gdtf with new locals
BuildAgain ==
  /\ pc = "packed"
  /\ Len(out) < MaxBuilds
  /\ pc' = "start"
  /\ ft' = <<>> /\ attr_defs' = <<>>
  /\ used_attrs' = <<>> /\ wheel_registry' = <<>> /\ wheels_el' = <<>>
  /\ dmx_modes_el' = <<>>
  /\ mi' = 0 /\ ci' = 0 /\ offset' = 0 /\ prev_ch_el' = 0 /\ prev_offset_start' = 0
  /\ UNCHANGED <<san, res, front_vars, args, out, modes_dict>>

----------------------------------------------------------------------------
(* The front ends: from the parser record and the editor state to modes_dict *)

\* ChannelSlot.__init__ with all its arguments; physical values in millionths
NewChannelSlot(name, dmx_from, dmx_to, physical_from, physical_to, slot_name) ==
  [name |-> name, dmx_from |-> dmx_from, dmx_to |-> dmx_to,
   physical_from |-> physical_from, physical_to |-> physical_to,
   slot_name |-> IF slot_name # <<>> THEN slot_name ELSE name]

\* d.get(key, default) for a dict held as a record
get(d, key, default) == IF key \in DOMAIN d THEN d[key] ELSE default

\* d.get(key) or default, for a number: a missing key gives None, and None
\* and 0 are both false
get_or(d, key, default) ==
  IF key \in DOMAIN d /\ d[key] # 0 THEN d[key] ELSE default

\* mutant of modes_set: a key that is present keeps its value
modes_set_keeps_first(d, mode_name, ch_defs) ==
  IF \E i \in DOMAIN d : d[i].name = mode_name
    THEN d
    ELSE Append(d, [name |-> mode_name, channels |-> ch_defs])

\* modes[mode_name] = ch_defs for a dict held in insertion order
modes_set(d, mode_name, ch_defs) ==
  IF \E i \in DOMAIN d : d[i].name = mode_name
    THEN [i \in DOMAIN d |->
            IF d[i].name = mode_name THEN [name |-> mode_name, channels |-> ch_defs]
            ELSE d[i]]
    ELSE Append(d, [name |-> mode_name, channels |-> ch_defs])

\* lines 787-798: the ChannelSlots of the parser's slot records that have a
\* name
parsed_slots(raw_slots) ==
  LET named == SelectSeq(raw_slots, LAMBDA s : get(s, "name", <<>>) # <<>>)
  IN [k \in DOMAIN named |->
        NewChannelSlot(named[k].name,
                       get_or(named[k], "dmx_from", 0),
                       get_or(named[k], "dmx_to", 255),
                       get_or(named[k], "physical_from", 0),
                       get_or(named[k], "physical_to", 1000000),
                       named[k].name)]

\* lines 785-803: the ChannelDefs of one parsed mode
parsed_channels(channels) ==
  [i \in DOMAIN channels |->
     ChannelDef(get(channels[i], "name",
                    <<"C","h"," ">> \o (IF "number" \in DOMAIN channels[i]
                                          THEN Str(channels[i].number) ELSE <<>>)),
                get(channels[i], "is_fine", FALSE),
                parsed_slots(get(channels[i], "slots", <<>>)))]

RECURSIVE parsed_modes(_, _)
parsed_modes(ms, acc) ==
  IF ms = <<>> THEN acc
  ELSE parsed_modes(Tail(ms),
         modes_set(acc, get(Head(ms), "name", <<"D","e","f","a","u","l","t">>),
                   parsed_channels(get(Head(ms), "channels", <<>>))))

parsed_dict_to_modes(p) ==
  [name  |-> get(p, "fixture_name", <<"U","n","k","n","o","w","n"," ","F","i","x","t","u","r","e">>),
   mfr   |-> get(p, "manufacturer", <<"U","n","k","n","o","w","n">>),
   modes |-> parsed_modes(get(p, "modes", <<>>), <<>>)]

\* make_slot_entry and make_channel_entry
make_slot_entry(dmx_from, dmx_to, name) ==
  [dmx_from |-> dmx_from, dmx_to |-> dmx_to, name |-> name]
make_channel_entry(name, fine) == [name |-> name, is_fine |-> fine, slots |-> <<>>]

\* lines 1392-1413, for the channel_list the mode refers to
channel_defs_from_mode(channel_list) ==
  [i \in DOMAIN channel_list |->
     LET named == SelectSeq(channel_list[i].slots, LAMBDA s : ~IsBlank(s.name))
     IN ChannelDef(channel_list[i].name, channel_list[i].is_fine,
                   [k \in DOMAIN named |->
                      ChannelSlot(named[k].name, named[k].dmx_from, named[k].dmx_to)])]

\* lines 1788-1792: the name-keyed mapping of the modes with a non-blank name
RECURSIVE editor_modes_dict(_, _, _)
editor_modes_dict(ms, objects, acc) ==
  IF ms = <<>> THEN acc
  ELSE editor_modes_dict(Tail(ms), objects,
         IF IsBlank(Head(ms).name) THEN acc
         ELSE modes_set(acc, Head(ms).name,
                        channel_defs_from_mode(objects[Head(ms).channel_list])))

\* how many slot records one channel of the front-end inputs holds
MaxSlots == 2

Gobo == <<"G","o","b","o">>

\* slot records of a parser: bounds only, with dmx_to = 0 and with
\* dmx_from > dmx_to; physical values given, among them 0.0; no name
ParsedSlotPool ==
  { [name |-> <<"O","p","e","n">>, dmx_from |-> 0, dmx_to |-> 0],
    [name |-> <<"R","e","v">>, dmx_from |-> 200, dmx_to |-> 100],
    [name |-> <<"G","o">>, dmx_from |-> 10, dmx_to |-> 255,
     physical_from |-> 0, physical_to |-> 0],
    [name |-> <<"H","a","l","f">>, dmx_from |-> 10, dmx_to |-> 20,
     physical_from |-> 500000, physical_to |-> 750000],
    [dmx_from |-> 0, dmx_to |-> 9] }

\* slot entries of the editor: the same bounds, and a blank label
EditorSlotPool ==
  { make_slot_entry(0, 0, <<"O","p","e","n">>),
    make_slot_entry(200, 100, <<"R","e","v">>),
    make_slot_entry(10, 255, <<"G","o">>),
    make_slot_entry(0, 9, <<" ">>) }

\* the channels after the first: none, or a blank-named row and a fine byte
InputTails ==
  { <<>>,
    << [name |-> <<" ">>, is_fine |-> FALSE, slots |-> <<>>],
       [name |-> Gobo \o <<" ","F","i","n","e">>, is_fine |-> TRUE, slots |-> <<>>] >> }

\* a parser record of one mode whose first channel is "Gobo"
ParsedInputs ==
  { [fixture_name |-> <<"P","a","r","6","4">>,
     manufacturer |-> <<"A","c","m","e">>,
     modes |-> << [name     |-> <<"8","c","h">>,
                   channels |-> << [name |-> Gobo, slots |-> ss] >> \o t] >>] :
      ss \in SeqsUpTo(ParsedSlotPool, MaxSlots), t \in InputTails }

\* an editor state of one mode whose first channel is "Gobo"
EditorInputs ==
  { [modes |-> << [name |-> ModeName(1), channel_list |-> 1] >>,
     heap  |-> << << [name |-> Gobo, is_fine |-> FALSE, slots |-> ss] >> \o t >>] :
      ss \in SeqsUpTo(EditorSlotPool, MaxSlots), t \in InputTails }

\* lines 1139 and 1251-1257: the parsed record becomes modes_dict and the
\* build starts
GenPdf ==
  /\ pc = "idle"
  /\ parsed # NoCall
  /\ args' = EditorArgs
  /\ modes_dict' = parsed_dict_to_modes(parsed).modes
  /\ pc' = "start"
  /\ UNCHANGED <<san, res, front_vars, ft, attr_defs, out, used_attrs, wheel_registry,
                 wheels_el, dmx_modes_el, mi, ci, offset, prev_ch_el, prev_offset_start>>

\* lines 1782-1795: the editor state becomes modes_dict and the build starts
GenManual ==
  /\ pc = "idle"
  /\ modes # <<>>
  /\ args' = EditorArgs
  /\ modes_dict' = editor_modes_dict(modes, heap, <<>>)
  /\ pc' = "start"
  /\ UNCHANGED <<san, res, front_vars, ft, attr_defs, out, used_attrs, wheel_registry,
                 wheels_el, dmx_modes_el, mi, ci, offset, prev_ch_el, prev_offset_start>>

\* a parser record or an editor state, before the button is pressed
InitInputs ==
  /\ san = NoCall /\ res = NoCall
  /\ BuildIdle
  /\ claude = NoCall /\ repair = NoCall /\ plumber = NoCall /\ ops = <<>>
  /\ \/ /\ parsed \in ParsedInputs
        /\ modes = <<>> /\ heap = <<>>
     \/ /\ parsed = NoCall
        /\ \E e \in EditorInputs : modes = e.modes /\ heap = e.heap

Init == InitBuild(ChannelPool)

InitWheels == InitBuild(WheelPool)

Next ==
  \/ BeginBuild
  \/ CollectAttrs
  \/ RegisterWheels
  \/ WriteWheels
  \/ BeginMode
  \/ SkipBlank
  \/ FineByte
  \/ EmitChannel
  \/ EndMode
  \/ Finish
  \/ Package

Spec == Init /\ [][Next]_vars

\* the steps of a call whose input may be ill-formed
NextChecked ==
  \/ Next
  \/ Raise

InitCollide == InitBuildOf(CollideInputs, MaxDocChannels)

SpecCollide == InitCollide /\ [][NextChecked]_vars

InitShape == InitBuildOf(ShapePool, MaxDocChannels)

SpecShape == InitShape /\ [][NextChecked]_vars

InitNames == InitBuildOf(NamesPool, MaxDocChannels)

SpecNames == InitNames /\ [][Next]_vars

InitAttrs == InitBuildOf(AttrsPool, MaxDocChannels)

SpecAttrs == InitAttrs /\ [][Next]_vars

\* repeated builds of one input
NextTwice ==
  \/ Next
  \/ BuildAgain

InitTwice == InitBuildOf(ChannelPool, MaxRepeatChannels)

SpecTwice == InitTwice /\ [][NextTwice]_vars

\* the round-trip scenario
InitPar64 ==
  /\ args = EditorArgs
  /\ IsPar64Input(modes_dict)
  /\ Called

SpecPar64 == InitPar64 /\ [][Next]_vars

----------------------------------------------------------------------------
(* The manual editor: st.session_state.modes and the handlers that change it *)

\* how many mode and channel operations one editor session of the model does
MaxOps == 3

\* lines 1422-1439: the state a new session starts with
InitialChannelList ==
  << make_channel_entry(<<"D","i","m","m","e","r">>, FALSE),
     make_channel_entry(<<"D","i","m","m","e","r"," ","F","i","n","e">>, TRUE),
     make_channel_entry(<<"R","e","d">>, FALSE),
     make_channel_entry(<<"G","r","e","e","n">>, FALSE),
     make_channel_entry(<<"B","l","u","e">>, FALSE),
     make_channel_entry(<<"W","h","i","t","e">>, FALSE),
     make_channel_entry(<<"A","m","b","e","r">>, FALSE),
     make_channel_entry(<<"U","V">>, FALSE),
     make_channel_entry(<<"S","t","r","o","b","e">>, FALSE),
     make_channel_entry(<<"M","a","c","r","o">>, FALSE) >>

\* the other variables while the editor is at work
EditorOnly ==
  /\ san = NoCall /\ res = NoCall
  /\ ParserIdle
  /\ BuildIdle

InitEditor ==
  /\ modes = << [name |-> ModeName(1), channel_list |-> 1] >>
  /\ heap = << InitialChannelList >>
  /\ ops = <<>>
  /\ EditorOnly

\* the channel_list object of the mode at position j
channel_list_of(j) == heap[modes[j].channel_list]

\* lines 1442-1446
AddMode ==
  /\ modes # <<>>
  /\ Len(ops) < MaxOps
  /\ heap' = Append(heap, << make_channel_entry(<<"D","i","m","m","e","r">>, FALSE) >>)
  /\ modes' = Append(modes, [name         |-> <<"M","o","d","e"," ">> \o Str(Len(modes) + 1),
                             channel_list |-> Len(heap) + 1])
  /\ ops' = Append(ops, [op |-> "add", i |-> 0])
  /\ UNCHANGED <<san, res, parsed, claude, repair, plumber, build_vars_only>>

\* s.insert(i, x) with the positions counted from 1: x becomes element i + 1
insert_after(s, i, x) ==
  SubSeq(s, 1, i) \o <<x>> \o SubSeq(s, i + 1, Len(s))

\* s.pop(i) with the positions counted from 1
pop(s, i) == SubSeq(s, 1, i - 1) \o SubSeq(s, i + 1, Len(s))

\* mutant of CopyMode: clone = dict(src), which shares the channel_list
CopyMode_shallow(i) ==
  /\ i \in DOMAIN modes
  /\ Len(ops) < MaxOps
  /\ heap' = heap
  /\ modes' = insert_after(modes, i,
                [name         |-> modes[i].name \o <<" ","(","C","o","p","y",")">>,
                 channel_list |-> modes[i].channel_list])
  /\ ops' = Append(ops, [op |-> "copy", i |-> i])
  /\ UNCHANGED <<san, res, parsed, claude, repair, plumber, build_vars_only>>

\* lines 1448-1453: copy.deepcopy makes new objects throughout
CopyMode(i) ==
  /\ i \in DOMAIN modes
  /\ Len(ops) < MaxOps
  /\ heap' = Append(heap, channel_list_of(i))
  /\ modes' = insert_after(modes, i,
                [name         |-> modes[i].name \o <<" ","(","C","o","p","y",")">>,
                 channel_list |-> Len(heap) + 1])
  /\ ops' = Append(ops, [op |-> "copy", i |-> i])
  /\ UNCHANGED <<san, res, parsed, claude, repair, plumber, build_vars_only>>

\* lines 1455-1457
RemoveMode(i) ==
  /\ i \in DOMAIN modes
  /\ Len(ops) < MaxOps
  /\ modes' = IF Len(modes) > 1 THEN pop(modes, i) ELSE modes
  /\ ops' = Append(ops, [op |-> "remove", i |-> i])
  /\ UNCHANGED <<san, res, heap, parsed, claude, repair, plumber, build_vars_only>>

\* lines 1526-1541: the picker's "Pan" button of mode j
PickChannel(j) ==
  /\ j \in DOMAIN modes
  /\ Len(ops) < MaxOps
  /\ ~\E c \in DOMAIN channel_list_of(j) :
        lower(channel_list_of(j)[c].name) = lower(<<"P","a","n">>)
  /\ heap' = [heap EXCEPT ![modes[j].channel_list] =
                Append(@, make_channel_entry(<<"P","a","n">>, FALSE))]
  /\ ops' = Append(ops, [op |-> "pick", i |-> j])
  /\ UNCHANGED <<san, res, modes, parsed, claude, repair, plumber, build_vars_only>>

\* lines 1637-1644
CONTINUOUS ==
  { <<"D","i","m","m","e","r">>, <<"P","a","n">>, <<"T","i","l","t">>, <<"R","e","d">>,
    <<"G","r","e","e","n">>, <<"B","l","u","e">>, <<"W","h","i","t","e">>,
    <<"A","m","b","e","r">>, <<"L","i","m","e">>, <<"U","V">>, <<"I","n","d","i","g","o">>,
    <<"C","y","a","n">>, <<"M","a","g","e","n","t","a">>, <<"Y","e","l","l","o","w">>,
    <<"C","T","O">>, <<"C","T","B">>, <<"H","u","e">>,
    <<"S","a","t","u","r","a","t","i","o","n">>, <<"P","a","n"," ","F","i","n","e">>,
    <<"T","i","l","t"," ","F","i","n","e">>, <<"D","i","m","m","e","r"," ","F","i","n","e">>,
    <<"Z","o","o","m"," ","F","i","n","e">>, <<"F","o","c","u","s"," ","F","i","n","e">>,
    <<"P","a","n"," ","S","p","e","e","d">>, <<"T","i","l","t"," ","S","p","e","e","d">> }

\* line 1587: known = any(k in ch["name"].lower() for k in ATTR_MAP)
known(ch) == \E k \in Keys : Contains(lower(ch.name), k)

\* lines 1645-1649
show_slots(ch) == ~ch.is_fine /\ ch.name \notin CONTINUOUS /\ known(ch)

Min(a, b) == IF a < b THEN a ELSE b

\* lines 1689-1698: the "Add slot" button of channel c of mode j
add_slot(j, c) ==
  /\ j \in DOMAIN modes
  /\ c \in DOMAIN channel_list_of(j)
  /\ show_slots(channel_list_of(j)[c])
  /\ LET slots     == channel_list_of(j)[c].slots
         next_from == IF slots # <<>> THEN slots[Len(slots)].dmx_to + 1 ELSE 0
         next_to   == Min(next_from + 10, 255)
     IN heap' = [heap EXCEPT ![modes[j].channel_list][c].slots =
                   Append(@, make_slot_entry(next_from, next_to, <<>>))]
  /\ ops' = Append(ops, [op |-> "slot", i |-> j])
  /\ UNCHANGED <<san, res, modes, parsed, claude, repair, plumber, build_vars_only>>

AddSlot(j, c) ==
  /\ Len(ops) < MaxOps
  /\ add_slot(j, c)

NextEditor ==
  \/ AddMode
  \/ \E i \in DOMAIN modes : CopyMode(i)
  \/ \E i \in DOMAIN modes : RemoveMode(i)
  \/ \E j \in DOMAIN modes : PickChannel(j)
  \/ \E j \in DOMAIN modes : \E c \in DOMAIN channel_list_of(j) : AddSlot(j, c)

SpecEditor == InitEditor /\ [][NextEditor]_vars

\* how many times "Add slot" is pressed on one channel
MaxSlotAdds == 26

\* "Add slot" pressed again and again on the channels of the initial mode
AddSlotAgain(c) ==
  /\ c \in DOMAIN channel_list_of(1)
  /\ Len(channel_list_of(1)[c].slots) < MaxSlotAdds
  /\ add_slot(1, c)

NextSlots == \E c \in DOMAIN channel_list_of(1) : AddSlotAgain(c)

SpecSlots == InitEditor /\ [][NextSlots]_vars

----------------------------------------------------------------------------
(* parse_pdf_with_claude: the requests and the text handed to the parser *)

\* line 494: for attempt in range(3)
Attempts == 3

\* lines 475-490: the conversation before the first request
FirstMessages ==
  << [role |-> "user",
      content |-> << [type |-> "document"],
                     [type |-> "text",
                      text |-> <<"E","x","t","r","a","c","t"," ","t","h","e"," ","c","o","m","p","l","e","t","e"," ","D","M","X"," ","c","h","a","n","n","e","l"," ","m","a","p"," ","f","r","o","m"," ","t","h","i","s"," ","f","i","x","t","u","r","e"," ","m","a","n","u","a","l"," ","a","n","d"," ","r","e","t","u","r","n"," ","o","n","l","y"," ","t","h","e"," ","J","S","O","N",".">>] >>] >>

ContinuePrompt ==
  <<"C","o","n","t","i","n","u","e"," ","t","h","e"," ","J","S","O","N"," ","e","x","a","c","t","l","y"," ","f","r","o","m"," ","w","h","e","r","e"," ","y","o","u"," ","s","t","o","p","p","e","d","."," ","D","o"," ","n","o","t"," ","r","e","p","e","a","t"," ","a","n","y","t","h","i","n","g"," ","a","l","r","e","a","d","y"," ","w","r","i","t","t","e","n",".">>

\* the fence character U+0060, which a TLA+ string cannot hold, written as
\* the acute accent
Tick == "´"

\* texts a response can carry: parts of a JSON document, with a markdown
\* fence and white space around them, and nothing
ChunkPool ==
  { <<Tick,Tick,Tick,"j","s","o","n","\n","{">>,
    <<"[","1",",">>,
    <<"]","}","\n",Tick,Tick,Tick," ">>,
    <<>> }

\* stop reasons of the API
StopReasons == {"end_turn", "max_tokens", "stop_sequence"}

\* str.strip() for the white space of the pool
PyWhitespace == {" ", "\n"}

\* lines 520-522: strip, then the two re.sub calls
strip_fences(full_text) ==
  LET s  == strip(full_text, PyWhitespace)
      op == IF Len(s) >= 3 /\ SubSeq(s, 1, 3) = <<Tick,Tick,Tick>>
              THEN LET rest == SubSeq(s, 4, Len(s))
                       word == lstrip(rest, LowerSet)
                   IN IF word # <<>> /\ Head(word) = "\n" THEN Tail(word) ELSE word
              ELSE s
      n  == Len(op)
  IN IF n >= 3 /\ SubSeq(op, n - 2, n) = <<Tick,Tick,Tick>>
       THEN IF n >= 4 /\ op[n - 3] = "\n" THEN SubSeq(op, 1, n - 4) ELSE SubSeq(op, 1, n - 3)
       ELSE op

\* lines 471-491: the call, before its first request
InitClaude ==
  /\ san = NoCall /\ res = NoCall
  /\ EditorIdle
  /\ parsed = NoCall /\ repair = NoCall /\ plumber = NoCall
  /\ BuildIdle
  /\ claude = [pc        |-> "loop",
               attempt   |-> 0,
               messages  |-> FirstMessages,
               full_text |-> <<>>,
               responses |-> <<>>,
               raw_text  |-> <<>>]

\* what one pass of the loop does with the response
after_response(c, chunk, stop_reason, continued) ==
  [c EXCEPT !.full_text = @ \o chunk,
            !.responses = Append(@, [chunk |-> chunk, stop_reason |-> stop_reason]),
            !.attempt   = @ + 1,
            !.messages  = IF stop_reason = "max_tokens"
                            THEN @ \o << [role |-> "assistant", content |-> chunk],
                                         [role |-> "user", content |-> ContinuePrompt] >>
                            ELSE @,
            !.pc        = IF continued /\ c.attempt + 1 < Attempts THEN "loop" ELSE "parse"]

\* mutant of CreateMessage: every stop reason but "end_turn" continues
CreateMessage_continues_unless_end ==
  /\ claude # NoCall
  /\ claude.pc = "loop"
  /\ \E chunk \in ChunkPool : \E stop_reason \in StopReasons :
       claude' = after_response(claude, chunk, stop_reason, stop_reason # "end_turn")
  /\ UNCHANGED <<san, res, modes, heap, ops, parsed, repair, plumber, build_vars_only>>

\* lines 494-517: one request and what the loop does with its response
CreateMessage ==
  /\ claude # NoCall
  /\ claude.pc = "loop"
  /\ \E chunk \in ChunkPool : \E stop_reason \in StopReasons :
       claude' = after_response(claude, chunk, stop_reason, stop_reason = "max_tokens")
  /\ UNCHANGED <<san, res, modes, heap, ops, parsed, repair, plumber, build_vars_only>>

\* lines 519-522: the text json.loads is given
StripFences ==
  /\ claude # NoCall
  /\ claude.pc = "parse"
  /\ claude' = [claude EXCEPT !.raw_text = strip_fences(claude.full_text),
                              !.pc = "loads"]
  /\ UNCHANGED <<san, res, modes, heap, ops, parsed, repair, plumber, build_vars_only>>

NextClaude ==
  \/ CreateMessage
  \/ StripFences

SpecClaude == InitClaude /\ [][NextClaude]_vars

----------------------------------------------------------------------------
(* _repair_truncated_json *)

\* str.splitlines() for texts whose only line boundary is "\n"
RECURSIVE splitlines(_, _, _)
splitlines(text, i, line) ==
  IF i > Len(text) THEN (IF line = <<>> THEN <<>> ELSE <<line>>)
  ELSE IF text[i] = "\n" THEN <<line>> \o splitlines(text, i + 1, <<>>)
  ELSE splitlines(text, i + 1, Append(line, text[i]))

\* "\n".join(lines)
RECURSIVE join_lines(_)
join_lines(lines) ==
  IF lines = <<>> THEN <<>>
  ELSE IF Len(lines) = 1 THEN lines[1]
  ELSE lines[1] \o <<"\n">> \o join_lines(Tail(lines))

\* line 540: lines[-1].strip().endswith(('}', ']', '"', ','))
ends_complete(line) ==
  LET s == strip(line, PyWhitespace)
  IN s # <<>> /\ s[Len(s)] \in {"}", "]", "\"", ","}

\* lines 540-541: the trailing lines that do not end a value are dropped
RECURSIVE trim_lines(_)
trim_lines(lines) ==
  IF lines # <<>> /\ ~ends_complete(lines[Len(lines)])
    THEN trim_lines(SubSeq(lines, 1, Len(lines) - 1))
    ELSE lines

\* lines 545-568: the scan, from character i on
RECURSIVE count_open(_, _, _)
count_open(text, i, st) ==
  IF i > Len(text) THEN st
  ELSE LET ch == text[i]
       IN count_open(text, i + 1,
            IF st.escape_next THEN [st EXCEPT !.escape_next = FALSE]
            ELSE IF ch = "\\" /\ st.in_string THEN [st EXCEPT !.escape_next = TRUE]
            ELSE IF ch = "\"" THEN [st EXCEPT !.in_string = ~st.in_string]
            ELSE IF st.in_string THEN st
            ELSE IF ch = "{" THEN [st EXCEPT !.depth_brace = @ + 1]
            ELSE IF ch = "}" THEN [st EXCEPT !.depth_brace = @ - 1]
            ELSE IF ch = "[" THEN [st EXCEPT !.depth_bracket = @ + 1]
            ELSE IF ch = "]" THEN [st EXCEPT !.depth_bracket = @ - 1]
            ELSE st)

Max(a, b) == IF a > b THEN a ELSE b

times(c, n) == [k \in 1..n |-> c]

\* line 576: re.sub(r',\s*$', '', text.rstrip())
strip_trailing_comma(text) ==
  LET s == rstrip(text, PyWhitespace)
  IN IF s # <<>> /\ s[Len(s)] = "," THEN SubSeq(s, 1, Len(s) - 1) ELSE s

\* lines 532-583
_repair_truncated_json(text) ==
  LET trimmed == join_lines(trim_lines(splitlines(text, 1, <<>>)))
      st      == count_open(trimmed, 1, [in_string |-> FALSE, escape_next |-> FALSE,
                                         depth_brace |-> 0, depth_bracket |-> 0])
      closing == (IF st.in_string THEN <<"\"">> ELSE <<>>)
                   \o times("]", Max(st.depth_bracket, 0))
                   \o times("}", Max(st.depth_brace, 0))
  IN strip_trailing_comma(trimmed) \o closing

\* valid JSON documents: objects in arrays in objects, strings that hold a
\* bracket, a comma and an escaped quote, on one line and on several
JsonDocs ==
  { <<"{","\"","m","\"",":","[","{","\"","c","\"",":","[","1",",","2","]",",","\"","n","\"",":","\"","a",",","]","\"","}",",","{","\"","c","\"",":","[","]","}","]","}">>,
    <<"{","\n","\"","m","\"",":","[","\n","{","\"","n","\"",":","\"","x","\\","\"","y","\"",",","\n","\"","s","\"",":","[","\n","1",",","\n","2","\n","]","\n","}","\n","]","\n","}">>,
    <<"[","[","1",",","[","2",",","{","\"","a","\"",":","{","\"","b","\"",":","[","3","]","}","}","]",",","\"","z","\"","]",",","{","\"","k","\"",":","\"","v","\"","}","]">> }

\* the documents cut anywhere
RepairInputs == UNION {{SubSeq(d, 1, n) : n \in 1..Len(d)} : d \in JsonDocs}

InitRepair ==
  /\ san = NoCall /\ res = NoCall
  /\ EditorIdle
  /\ parsed = NoCall /\ claude = NoCall /\ plumber = NoCall
  /\ BuildIdle
  /\ \E text \in RepairInputs : repair = [pc |-> "call", text |-> text]

RepairTruncatedJson ==
  /\ repair # NoCall
  /\ repair.pc = "call"
  /\ repair' = [pc |-> "done", text |-> repair.text,
                result |-> _repair_truncated_json(repair.text)]
  /\ UNCHANGED <<san, res, modes, heap, ops, parsed, claude, plumber, build_vars_only>>

NextRepair == RepairTruncatedJson

SpecRepair == InitRepair /\ [][NextRepair]_vars

----------------------------------------------------------------------------
(* parse_pdf_with_pdfplumber: the rows of the extracted tables *)

\* how many rows the extracted table of the model holds
MaxRows == 3

\* a pattern is a sequence of items: a literal text, or zero or more
\* characters of a set; pattern_at says whether it matches s from position i
RECURSIVE pattern_at(_, _, _)
pattern_at(s, i, pat) ==
  IF pat = <<>> THEN TRUE
  ELSE IF Head(pat).kind = "lit"
    THEN /\ i + Len(Head(pat).text) - 1 <= Len(s)
         /\ SubSeq(s, i, i + Len(Head(pat).text) - 1) = Head(pat).text
         /\ pattern_at(s, i + Len(Head(pat).text), Tail(pat))
    ELSE \E n \in 0..(Len(s) + 1 - i) :
           /\ \A k \in 0..(n - 1) : s[i + k] \in Head(pat).chars
           /\ pattern_at(s, i + n, Tail(pat))

\* re.search
search(pat, s) == \E i \in 1..(Len(s) + 1) : pattern_at(s, i, pat)

Lit(text) == [kind |-> "lit", text |-> text]
Star(chars) == [kind |-> "star", chars |-> chars]

\* lines 622-625, on the lower-cased text (re.IGNORECASE)
MODE_KEYWORDS(row_text) ==
  LET s == lower(row_text)
  IN \/ search(<<Lit(<<"m","o","d","e">>)>>, s)
     \/ search(<<Lit(<<"c","h","a","n","n","e","l">>), Star(PyWhitespace), Star(WordChars),
                 Star(PyWhitespace), Lit(<<"c","h","a","r","t">>)>>, s)
     \/ search(<<Lit(<<"d","m","x">>), Star(PyWhitespace), Lit(<<"c","h","a","r","t">>)>>, s)
     \/ search(<<Lit(<<"c","h","a","n","n","e","l">>), Star(PyWhitespace), Lit(<<"l","i","s","t">>)>>, s)
     \/ \E d \in DigitSet : search(<<Lit(<<d>>), Star(PyWhitespace), Lit(<<"c","h">>)>>, s)

\* how many of the characters of s from position i on are in the set, up to most
RECURSIVE run_at(_, _, _, _)
run_at(s, i, chars, most) ==
  IF most = 0 \/ i > Len(s) \/ s[i] \notin chars THEN 0
  ELSE 1 + run_at(s, i + 1, chars, most - 1)

\* line 619: CHAN_NUM_RE = ^\s*(\d{1,3})\s*$
CHAN_NUM_RE(cell) ==
  LET s == strip(cell, PyWhitespace)
  IN Len(s) \in 1..3 /\ \A k \in DOMAIN s : s[k] \in DigitSet

\* int() of a text of digits
RECURSIVE int(_)
int(s) ==
  IF s = <<>> THEN 0
  ELSE 10 * int(SubSeq(s, 1, Len(s) - 1))
         + ((CHOOSE k \in DOMAIN DIGITS : DIGITS[k] = s[Len(s)]) - 1)

NoMatch == [matched |-> FALSE]

\* lines 616-618: RANGE_RE.match for a text without white space at its end:
\* (\d{1,3}) \s* separators+ \s* (\d{1,3}) \s+ (.+), ignoring case. The
\* separators are '-', '~', 't', 'o' and the en dash U+2013, which a TLA+
\* string cannot hold and no text of the model contains
RANGE_RE(s) ==
  LET d1 == run_at(s, 1, DigitSet, 3)
      w1 == run_at(s, 1 + d1, PyWhitespace, Len(s))
      p  == run_at(s, 1 + d1 + w1, {"-", "~", "t", "o", "T", "O"}, Len(s))
      w2 == run_at(s, 1 + d1 + w1 + p, PyWhitespace, Len(s))
      b  == 1 + d1 + w1 + p + w2
      d2 == run_at(s, b, DigitSet, 3)
      w3 == run_at(s, b + d2, PyWhitespace, Len(s))
  IN IF d1 >= 1 /\ p >= 1 /\ d2 >= 1 /\ w3 >= 1 /\ b + d2 + w3 <= Len(s)
       THEN [matched |-> TRUE,
             g1 |-> SubSeq(s, 1, d1),
             g2 |-> SubSeq(s, b, b + d2 - 1),
             g3 |-> SubSeq(s, b + d2 + w3, Len(s))]
       ELSE NoMatch

\* round(d / 255, 4), in millionths
Round4(d) == 100 * ((2 * 10000 * d + 255) \div (2 * 255))

\* the slot record of lines 690-696, 703-709 and 717-723
range_slot(name, from, to) ==
  [name          |-> strip(name, PyWhitespace),
   dmx_from      |-> int(from),
   dmx_to        |-> int(to),
   physical_from |-> Round4(int(from)),
   physical_to   |-> Round4(int(to))]

\* lines 106-107
is_fine(name) ==
  \E w \in { <<"f","i","n","e">>, <<" ","l","s","b">>, <<"1","6","-","b","i","t">>,
             <<"1","6","b","i","t">>, <<"l","o","w"," ","b","y","t","e">> } :
     Contains(lower(name), w)

\* lines 634-644
flush_channel(p) ==
  [p EXCEPT !.current_channels =
              IF p.current_ch_name # None /\ p.current_ch_name # <<>>
                THEN Append(@, [number  |-> p.current_ch_number,
                                name    |-> p.current_ch_name,
                                is_fine |-> is_fine(p.current_ch_name),
                                slots   |-> p.current_slots])
                ELSE @,
            !.current_ch_name = None,
            !.current_slots = <<>>]

\* lines 646-651
flush_mode(p) ==
  LET q == flush_channel(p)
  IN [q EXCEPT !.modes_found =
                 IF q.current_channels # <<>>
                   THEN modes_set(@, q.current_mode, q.current_channels)
                   ELSE @,
               !.current_channels = <<>>]

\* " ".join(r for r in cells if r) and " | ".join(...)
RECURSIVE join(_, _)
join(sep, cells) ==
  LET full == SelectSeq(cells, LAMBDA r : r # <<>>)
  IN IF full = <<>> THEN <<>>
     ELSE IF Len(full) = 1 THEN full[1]
     ELSE full[1] \o sep \o join(sep, Tail(full))

\* lines 657-723: what the loop does with one row of a table
table_row(p, row) ==
  LET row_text == join(<<" ","|"," ">>, row)
  IN IF row = <<>> THEN p
     ELSE IF MODE_KEYWORDS(row_text) /\ Len(row_text) < 60
       THEN [flush_mode(p) EXCEPT !.current_mode =
               strip(SelectSeq(strip(row_text, PyWhitespace), LAMBDA c : c # "|"), PyWhitespace)]
     ELSE IF Len(row) >= 2 /\ CHAN_NUM_RE(row[1])
       THEN LET number == int(strip(row[1], PyWhitespace))
                rest   == strip(join(<<" ">>, SubSeq(row, 3, Len(row))), PyWhitespace)
                m      == RANGE_RE(rest)
            IN [flush_channel(p) EXCEPT
                  !.current_ch_number = number,
                  !.current_ch_name = IF row[2] # <<>> THEN strip(row[2], PyWhitespace)
                                      ELSE <<"C","h"," ">> \o Str(number),
                  !.current_slots = IF m.matched THEN <<range_slot(m.g3, m.g1, m.g2)>> ELSE <<>>]
     ELSE IF row[1] # <<>> /\ RANGE_RE(row[1]).matched /\ p.current_ch_name # None
       THEN [p EXCEPT !.current_slots =
               Append(@, range_slot(RANGE_RE(row[1]).g3, RANGE_RE(row[1]).g1, RANGE_RE(row[1]).g2))]
     ELSE IF /\ Len(row) >= 3
             /\ CHAN_NUM_RE(row[1])
             /\ CHAN_NUM_RE(row[2])
             /\ row[3] # <<>>
             /\ p.current_ch_name # None
       THEN [p EXCEPT !.current_slots =
               Append(@, range_slot(row[3], strip(row[1], PyWhitespace), strip(row[2], PyWhitespace)))]
     ELSE p

\* rows of an extracted table, with their cells stripped (lines 599-604): a
\* channel row, one with a range in its third cell, a multi-cell range row,
\* a range row, a mode header and a row of text
RowPool ==
  { << <<"1">>, <<"G","o","b","o">> >>,
    << <<"2">>, <<"G","o","b","o"," ","F","i","n","e">>, <<"0","-","9"," ","D","o","t","s">> >>,
    << <<"0">>, <<"1","0">>, <<"O","p","e","n">> >>,
    << <<"1","1","-","2","0"," ","S","t","a","r">> >>,
    << <<"8","c","h">>, <<>> >>,
    << <<"n","o","t","e">> >> }

\* lines 627-632, for one page with one table and no text
InitPlumber ==
  /\ san = NoCall /\ res = NoCall
  /\ EditorIdle
  /\ parsed = NoCall /\ claude = NoCall /\ repair = NoCall
  /\ BuildIdle
  /\ \E table \in SeqsUpTo(RowPool, MaxRows) :
       plumber = [pc                |-> "rows",
                  rows              |-> table,
                  modes_found       |-> <<>>,
                  current_mode      |-> <<"D","e","f","a","u","l","t"," ","M","o","d","e">>,
                  current_channels  |-> <<>>,
                  current_ch_name   |-> None,
                  current_slots     |-> <<>>,
                  current_ch_number |-> 0]

\* one pass of the loop of line 656
TableRow ==
  /\ plumber # NoCall
  /\ plumber.pc = "rows"
  /\ plumber.rows # <<>>
  /\ plumber' = [table_row(plumber, Head(plumber.rows)) EXCEPT !.rows = Tail(plumber.rows)]
  /\ UNCHANGED <<san, res, modes, heap, ops, parsed, claude, repair, build_vars_only>>

\* lines 753-775: the record for the modes found. The texts hold an em dash
\* U+2014, which a TLA+ string cannot hold and is written "-"; _raw_text is
\* the empty text of the page
returned(modes_found) ==
  IF modes_found = <<>>
    THEN [fixture_name   |-> <<"U","n","k","n","o","w","n"," ","-"," ","c","h","e","c","k"," ","e","x","t","r","a","c","t","e","d"," ","t","e","x","t">>,
          manufacturer   |-> <<"U","n","k","n","o","w","n">>,
          modes          |-> <<>>,
          _raw_text      |-> <<>>,
          _parse_warning |-> TRUE]
    ELSE [fixture_name |-> <<"U","n","k","n","o","w","n"," ","-"," ","e","d","i","t"," ","a","b","o","v","e">>,
          manufacturer |-> <<"U","n","k","n","o","w","n"," ","-"," ","e","d","i","t"," ","a","b","o","v","e">>,
          modes        |-> modes_found]

\* lines 750-775: the last flush and the record that is returned
ReturnModes ==
  /\ plumber # NoCall
  /\ plumber.pc = "rows"
  /\ plumber.rows = <<>>
  /\ LET q == flush_mode(plumber)
     IN plumber' = [pc |-> "returned", rows |-> <<>>, result |-> returned(q.modes_found)]
  /\ UNCHANGED <<san, res, modes, heap, ops, parsed, claude, repair, build_vars_only>>

NextPlumber ==
  \/ TableRow
  \/ ReturnModes

SpecPlumber == InitPlumber /\ [][NextPlumber]_vars

\* builds started from the front ends
NextInputs ==
  \/ GenPdf
  \/ GenManual
  \/ Next

SpecInputs == InitInputs /\ [][NextInputs]_vars

\* how many modes the editor states with repeated names hold
MaxEditorModes == 3

\* mode names of the editor, one of them blank
EditorNamePool == { ModeName(1), ModeName(2), <<" ">> }

\* channel lists of the editor: with a blank-named row and a fine byte
EditorListPool ==
  { << make_channel_entry(<<"R","e","d">>, FALSE) >>,
    << make_channel_entry(<<"D","i","m","m","e","r">>, FALSE),
       make_channel_entry(<<" ">>, FALSE),
       make_channel_entry(<<"D","i","m","m","e","r"," ","F","i","n","e">>, TRUE) >> }

\* an editor state after renaming: any names, the list of mode k at heap[k]
InitNamesakes ==
  /\ EditorOnly
  /\ ops = <<>>
  /\ \E n \in 1..MaxEditorModes :
       /\ \E names \in [1..n -> EditorNamePool] :
            modes = [k \in 1..n |-> [name |-> names[k], channel_list |-> k]]
       /\ heap \in [1..n -> EditorListPool]

NextNamesakes ==
  \/ GenManual
  \/ Next

SpecNamesakes == InitNamesakes /\ [][NextNamesakes]_vars

SpecWheels == InitWheels /\ [][Next]_vars

----------------------------------------------------------------------------
(* Claims about _safe_xml_name *)

SafeReturned == san.pc = "ret"

\* C5: for every input text and every fallback the program uses,
\* _safe_xml_name returns a string that is never empty, never starts with a
\* digit and never contains the character '.'.
C5_SafeNameShape ==
  SafeReturned =>
    /\ san.out # <<>>
    /\ san.out[1] \notin DigitSet
    /\ "." \notin Range(san.out)

\* C5 witness: a text that starts with a digit and holds a '.' was sanitised.
C5_Witness ==
  /\ SafeReturned
  /\ san.text # <<>>
  /\ san.text[1] \in DigitSet
  /\ "." \in Range(san.text)

\* C6 as stated: the result is non-empty and matches
\* ^[A-Za-z0-9_][A-Za-z0-9_ \-]*$ (first character a letter, digit or
\* underscore; every later character a letter, digit, underscore, space or
\* hyphen), also for texts that begin with a hyphen.
C6_Original ==
  SafeReturned =>
    /\ san.out # <<>>
    /\ san.out[1] \in WordChars
    /\ \A i \in 2..Len(san.out) : san.out[i] \in SafeChars

\* C6 amended: the result is non-empty and matches
\* ^[A-Za-z0-9_\-][A-Za-z0-9_ \-]*$: a leading hyphen of the text is kept, so
\* the first character is a letter, digit, underscore or hyphen.
C6_SafeNamePattern ==
  SafeReturned =>
    /\ san.out # <<>>
    /\ san.out[1] \in WordChars \cup {"-"}
    /\ \A i \in 2..Len(san.out) : san.out[i] \in SafeChars

\* C6 witness: a text that begins with a hyphen was sanitised and the result
\* begins with that hyphen.
C6_Witness ==
  /\ SafeReturned
  /\ san.text # <<>>
  /\ san.text[1] = "-"
  /\ san.out[1] = "-"

----------------------------------------------------------------------------
(* Claims about resolve_attr *)

ResolveReturned == res.pc = "ret"

\* the lower-cased, trimmed name
Cleaned(raw) == strip(lower(raw), Whitespace)

\* the positions of the table keys that are substrings of a cleaned name
KeysIn(clean) == {i \in DOMAIN ATTR_MAP : Contains(clean, ATTR_MAP[i].key)}

\* the keys that contain an earlier key as a substring
Shadowed ==
  {i \in DOMAIN ATTR_MAP :
     \E j \in 1..(i - 1) : Contains(ATTR_MAP[i].key, ATTR_MAP[j].key)}

\* the keys the claim names as examples
C8_Examples ==
  { <<"p","a","n"," ","s","p","e","e","d">>,
    <<"s","t","r","o","b","e"," ","r","a","t","e">>,
    <<"g","o","b","o"," ","2">>,
    <<"p","r","i","s","m"," ","r","o","t","a","t","i","o","n">>,
    <<"c","o","l","o","r"," ","m","i","x">>,
    <<"e","f","f","e","c","t","s"," ","s","p","e","e","d">> }

\* C7: resolve_attr is total: for every input string it returns a 4-tuple in
\* which none of the four fields is the empty string.
C7_ResolveTotal ==
  ResolveReturned =>
    /\ DOMAIN res.out = {"attr", "fg", "feat", "ag"}
    /\ res.out.attr # <<>>
    /\ res.out.fg # <<>>
    /\ res.out.feat # <<>>
    /\ res.out.ag # <<>>

\* C7 witness: a non-empty, whitespace-only name was resolved.
C7_Witness ==
  /\ ResolveReturned
  /\ res.raw # <<>>
  /\ Cleaned(res.raw) = <<>>

\* C8: a name whose lower-cased, trimmed form is exactly a key returns that
\* key's entry even when an earlier key is a substring of it; otherwise the
\* entry of the first key, in definition order, that is a substring of the
\* cleaned name is returned; hence a key that contains an earlier key is
\* returned only on an exact match, never through the substring scan.
C8_ExactThenFirstSubstring ==
  /\ \A k \in C8_Examples : \E i \in Shadowed : ATTR_MAP[i].key = k
  /\ ResolveReturned =>
       LET clean == Cleaned(res.raw)
           found == KeysIn(clean)
       IN /\ clean \in Keys =>
               \E i \in DOMAIN ATTR_MAP :
                  ATTR_MAP[i].key = clean /\ res.out = ATTR_MAP[i].val
          /\ (clean \notin Keys /\ found # {}) =>
               \E i \in found :
                  /\ \A j \in found : i <= j
                  /\ res.out = ATTR_MAP[i].val
                  /\ i \notin Shadowed

\* C8 witness: "strobe speed" in another letter case was resolved by exact
\* match although the earlier keys "strobe" and "speed" are substrings of it.
C8_Witness ==
  /\ ResolveReturned
  /\ res.raw \notin Keys
  /\ Cleaned(res.raw) = <<"s","t","r","o","b","e"," ","s","p","e","e","d">>
  /\ res.out.attr = <<"S","h","u","t","t","e","r","1","S","t","r","o","b","e","F","r","e","q">>

\* the name matches no key, neither exactly nor by substring
NoKeyMatches(raw) == Cleaned(raw) \notin Keys /\ KeysIn(Cleaned(raw)) = {}

\* C9 as stated: for a name that matches no key the attribute is the name with
\* every character outside [A-Za-z0-9_] replaced by '_' ("Custom" if that is
\* empty), and feature group, feature and activation group all equal it.
C9_Original ==
  (ResolveReturned /\ NoKeyMatches(res.raw)) =>
    LET sub    == sub_nonword(res.raw)
        custom == IF sub = <<>> THEN Custom ELSE sub
    IN /\ res.out.attr = custom
       /\ res.out.fg = custom
       /\ res.out.feat = custom
       /\ res.out.ag = custom

\* C9 amended: for a name that matches no key the attribute is the trimmed
\* name with every character outside [A-Za-z0-9_] replaced by '_' ("Custom"
\* if that is empty); the activation group equals that custom name, while
\* the feature group and the feature are both "Control".
C9_FallbackTuple ==
  (ResolveReturned /\ NoKeyMatches(res.raw)) =>
    LET trimmed == strip(res.raw, Whitespace)
        custom  == IF trimmed = <<>> THEN Custom
                   ELSE [i \in 1..Len(trimmed) |->
                           IF trimmed[i] \in WordChars THEN trimmed[i] ELSE "_"]
    IN /\ res.out.attr = custom
       /\ res.out.ag = custom
       /\ res.out.fg = Control
       /\ res.out.feat = Control

\* C9 witness: a name with a symbol in it that matches no key was resolved to
\* a custom attribute.
C9_Witness ==
  /\ ResolveReturned
  /\ NoKeyMatches(res.raw)
  /\ "!" \in Range(res.raw)
  /\ "_" \in Range(res.out.attr)
  /\ res.out.attr # Custom

----------------------------------------------------------------------------
(* Claims about the offset allocation of build_gdtf *)

Chs(m) == modes_dict[m].channels
Els(m) == dmx_modes_el[m].DMXChannels

\* the modes whose DMXMode element exists, and those that are complete
Begun == DOMAIN dmx_modes_el
Closed == {m \in Begun : dmx_modes_el[m].closed}

\* how many entries of mode m the inner loop has handled
Handled(m) == IF dmx_modes_el[m].closed THEN Len(Chs(m)) ELSE ci - 1

NonBlankAt(m, i) == ~IsBlank(Chs(m)[i].name)
FineAt(m, i) == NonBlankAt(m, i) /\ Chs(m)[i].is_fine_byte
CoarseAt(m, i) == NonBlankAt(m, i) /\ ~Chs(m)[i].is_fine_byte

\* 1 + the number of non-blank entries before position i
AddressOf(m, i) == 1 + Cardinality({j \in 1..(i - 1) : NonBlankAt(m, j)})

\* the nearest non-blank entry after / before position i, 0 if there is none
NextNonBlank(m, i) ==
  LET later == {j \in (i + 1)..Len(Chs(m)) : NonBlankAt(m, j)}
  IN IF later = {} THEN 0 ELSE CHOOSE j \in later : \A h \in later : j <= h
PrevNonBlank(m, i) ==
  LET earlier == {j \in 1..(i - 1) : NonBlankAt(m, j)}
  IN IF earlier = {} THEN 0 ELSE CHOOSE j \in earlier : \A h \in earlier : h <= j

\* the elements of mode m that entry i produced
ElsOf(m, i) == {x \in DOMAIN Els(m) : Els(m)[x].src = i}

\* mode m is the claim's example [Dimmer, Dimmer Fine, Red]
IsDimmerFineRed(m) ==
  /\ Len(Chs(m)) = 3
  /\ Chs(m)[1] = ChannelDef(<<"D","i","m","m","e","r">>, FALSE, <<>>)
  /\ Chs(m)[2] = ChannelDef(<<"D","i","m","m","e","r"," ","F","i","n","e">>, TRUE, <<>>)
  /\ Chs(m)[3] = ChannelDef(<<"R","e","d">>, FALSE, <<>>)

ExampleOffsets(m) ==
  IsDimmerFineRed(m) =>
    /\ Len(Els(m)) = 2
    /\ Els(m)[1].Offset = <<1, 2>>
    /\ Els(m)[2].Offset = <<3>>

\* C1 as stated: in a complete mode, a channel emitted at offset k whose next
\* list entry is a non-blank fine byte has Offset "k,k+1" and the next emitted
\* channel has offset k+2; a channel whose next list entry is not a fine byte
\* has a single-value Offset; [Dimmer, Dimmer Fine, Red] gives "1,2" and "3".
C1_Original ==
  \A m \in Closed :
    /\ \A x \in DOMAIN Els(m) :
         LET e == Els(m)[x]
             i == e.src
             k == e.Offset[1]
         IN IF i < Len(Chs(m)) /\ FineAt(m, i + 1)
              THEN /\ e.Offset = <<k, k + 1>>
                   /\ (x < Len(Els(m)) => Els(m)[x + 1].Offset[1] = k + 2)
              ELSE Len(e.Offset) = 1
    /\ ExampleOffsets(m)

\* C1 amended: in a complete mode, a channel emitted at offset k whose next
\* non-blank entry is a fine byte has Offset "k,k+1", and a channel emitted
\* for the next non-blank entry after that fine byte has offset k+2; a channel
\* whose next non-blank entry is not a fine byte has a single-value Offset;
\* [Dimmer, Dimmer Fine, Red] gives "1,2" and "3".
C1_FineByteFusion ==
  \A m \in Closed :
    /\ \A x \in DOMAIN Els(m) :
         LET e == Els(m)[x]
             k == e.Offset[1]
             f == NextNonBlank(m, e.src)
         IN IF f # 0 /\ FineAt(m, f)
              THEN /\ e.Offset = <<k, k + 1>>
                   /\ LET n == NextNonBlank(m, f)
                      IN (n # 0 /\ CoarseAt(m, n)) =>
                           /\ x < Len(Els(m))
                           /\ Els(m)[x + 1].src = n
                           /\ Els(m)[x + 1].Offset[1] = k + 2
              ELSE e.Offset = <<k>>
    /\ ExampleOffsets(m)

\* C1 witness: the build of a mode [Dimmer, Dimmer Fine, Red] is complete.
C1_Witness ==
  /\ pc = "done"
  /\ \E m \in Closed : IsDimmerFineRed(m) /\ Len(Els(m)) = 2

\* C2: every non-blank entry, fine or not, consumes exactly one address
\* counted from 1 and a blank-named entry none: the first Offset value of the
\* element of a non-fine entry is 1 + the number of non-blank entries before
\* it, offsets increase strictly in list order, and no address belongs to two
\* channels.
C2_OneAddressPerEntry ==
  \A m \in Begun :
    /\ (pc = "channel" /\ m = mi) => offset = AddressOf(m, ci)
    /\ \A i \in 1..Handled(m) :
         Cardinality(ElsOf(m, i)) = IF CoarseAt(m, i) THEN 1 ELSE 0
    /\ \A x \in DOMAIN Els(m) :
         /\ Els(m)[x].src \in 1..Handled(m)
         /\ Els(m)[x].Offset[1] = AddressOf(m, Els(m)[x].src)
    /\ \A x, y \in DOMAIN Els(m) :
         x < y =>
           /\ Els(m)[x].src < Els(m)[y].src
           /\ Els(m)[x].Offset[Len(Els(m)[x].Offset)] < Els(m)[y].Offset[1]
           /\ Range(Els(m)[x].Offset) \cap Range(Els(m)[y].Offset) = {}

\* C2 witness: a mode that starts with a blank-named entry and a fine byte
\* has emitted the channel of its third entry.
C2_Witness ==
  /\ pc = "channel"
  /\ ci = 4
  /\ ~NonBlankAt(mi, 1)
  /\ FineAt(mi, 2)
  /\ ElsOf(mi, 3) # {}

\* a fine byte with no pending coarse channel, told from the list alone: it
\* is the first non-blank entry or the non-blank entry before it is a fine
\* byte
Orphan(m, i) ==
  /\ FineAt(m, i)
  /\ PrevNonBlank(m, i) = 0 \/ FineAt(m, PrevNonBlank(m, i))

\* C3: a non-blank fine byte with no pending coarse channel (first non-blank
\* entry of the mode, or next after another fine byte) emits no element,
\* changes no Offset and still advances the address counter by 1; no Offset
\* ever has more than two values.
C3_OrphanFineByte ==
  /\ [][ (AtChannel /\ Orphan(mi, ci)) =>
           /\ prev_ch_el = 0
           /\ dmx_modes_el' = dmx_modes_el
           /\ offset' = offset + 1 ]_vars
  /\ [](\A m \in Begun : \A x \in DOMAIN Els(m) : Len(Els(m)[x].Offset) <= 2)

\* C3 witness: a fine byte that follows a fused fine byte has been passed:
\* the address counter moved on and the one element kept its Offset.
C3_Witness ==
  /\ pc = "channel"
  /\ ci = 4
  /\ CoarseAt(mi, 1) /\ FineAt(mi, 2) /\ FineAt(mi, 3)
  /\ offset = 4
  /\ Len(Els(mi)) = 1
  /\ Els(mi)[1].Offset = <<1, 2>>

\* the elements whose Offset the step changes
OffsetChanged(m, x) == dmx_modes_el'[m].DMXChannels[x].Offset # Els(m)[x].Offset

\* C4 as stated: the fine byte at position i changes the Offset of an element
\* only if the entry at position i-1 is the non-fine channel that produced
\* the element.
C4_Original ==
  [][ (AtChannel /\ FineAt(mi, ci)) =>
        \A m \in Begun : \A x \in DOMAIN Els(m) :
           OffsetChanged(m, x) =>
             /\ m = mi
             /\ Els(m)[x].src = ci - 1 ]_vars

\* C4 amended: the fine byte at position i changes the Offset of an element
\* only if the nearest non-blank entry before position i is the non-fine
\* channel that produced the element: blank-named entries in between do not
\* separate them, any other entry does.
C4_FineByteAttachesToNearest ==
  [][ (AtChannel /\ FineAt(mi, ci)) =>
        \A m \in Begun : \A x \in DOMAIN Els(m) :
           OffsetChanged(m, x) =>
             /\ m = mi
             /\ Els(m)[x].src = PrevNonBlank(mi, ci)
             /\ CoarseAt(mi, Els(m)[x].src) ]_vars

\* C4 witness: a fine byte separated from a coarse channel by a blank-named
\* entry has extended that channel's Offset.
C4_Witness ==
  /\ pc = "channel"
  /\ ci = 4
  /\ CoarseAt(mi, 1) /\ ~NonBlankAt(mi, 2) /\ FineAt(mi, 3)
  /\ Els(mi)[1].Offset = <<1, 2>>

----------------------------------------------------------------------------
(* Claims about the wheels of build_gdtf *)

\* the positions, in scan order over all modes, of the non-fine channels
\* with at least one slot that resolve to attribute a
WheelSources(a) ==
  LET all == AllChannels(modes_dict)
  IN {p \in DOMAIN all :
        /\ ~all[p].is_fine_byte
        /\ all[p].slots # <<>>
        /\ resolved(all[p].name).attr = a}

\* C10: wheel registration is first-seen-wins per attribute: the first
\* non-fine channel with a slot that resolves to a wheel-capable attribute,
\* in mode order and list order, fixes the wheel name as the sanitised form
\* of its raw name, and every channel with slots that resolves to the same
\* attribute, in any mode and under any label, carries that name in the
\* Wheel attribute of its ChannelFunctions.
C10_FirstSeenWheelName ==
  pc = "done" =>
    \A a \in WHEEL_ATTRS :
      WheelSources(a) # {} =>
        LET all   == AllChannels(modes_dict)
            first == CHOOSE p \in WheelSources(a) : \A q \in WheelSources(a) : p <= q
            wname == _safe_xml_name(all[first].name, a)
        IN /\ registry_get(wheel_registry, a) = wname
           /\ \A m \in Begun : \A x \in DOMAIN Els(m) :
                LET ch  == Chs(m)[Els(m)[x].src]
                    cfs == Els(m)[x].LogicalChannel.ChannelFunctions
                IN (ch.slots # <<>> /\ resolved(ch.name).attr = a) =>
                     \A k \in DOMAIN cfs :
                        /\ "Wheel" \in DOMAIN cfs[k]
                        /\ cfs[k].Wheel = wname

\* C10 witness: "Gobo Wheel" in the first mode and "Gobo" in the second both
\* carry slots, and the build is complete.
C10_Witness ==
  /\ pc = "done"
  /\ Len(modes_dict) = 2
  /\ \E i \in DOMAIN Chs(1) :
        /\ Chs(1)[i].name = <<"G","o","b","o"," ","W","h","e","e","l">>
        /\ \A j \in 1..(i - 1) : Chs(1)[j].slots = <<>> \/ Chs(1)[j].is_fine_byte \/ IsBlank(Chs(1)[j].name)
  /\ \E x \in DOMAIN Els(2) :
        /\ Chs(2)[Els(2)[x].src].name = <<"G","o","b","o">>
        /\ Els(2)[x].LogicalChannel.ChannelFunctions[1].Wheel =
             <<"G","o","b","o","_","W","h","e","e","l">>

----------------------------------------------------------------------------
(* Claims about the Wheels block and the ChannelFunctions *)

\* every name is a str and every slot has its attributes
WellFormed(md) ==
  \A ch \in Range(AllChannels(md)) :
    /\ ch.name # None
    /\ \A k \in DOMAIN ch.slots : "physical_from" \in DOMAIN ch.slots[k]

WheelsWritten == pc \in {"mode", "channel", "done", "packed"}

BuildReturned == pc \in {"done", "packed"}

WheelNames == {wheels_el[i].Name : i \in DOMAIN wheels_el}

RegisteredNames == {wheel_registry[i].wname : i \in DOMAIN wheel_registry}

\* the positions, in scan order over all modes, of the non-fine channels
\* with at least one slot whose attribute is registered under wheel name w
WheelMappers(w) ==
  LET all == AllChannels(modes_dict)
  IN {p \in DOMAIN all :
        /\ ~all[p].is_fine_byte
        /\ all[p].slots # <<>>
        /\ registry_get(wheel_registry, resolved(all[p].name).attr) = w}

\* the first of them: the channel that writes the Wheel element
WheelWriter(w) == CHOOSE p \in WheelMappers(w) : \A q \in WheelMappers(w) : p <= q

GoboWheel == <<"G","o","b","o"," ","W","h","e","e","l">>

\* C11: the Wheels block holds exactly one Wheel element per distinct
\* registered wheel name; the element holds "Open" and the slots of the first
\* channel that maps to the name, so a later channel that maps to a name
\* already written (same or other mode, same or other attribute) adds no
\* Wheel and no Slot; every emitted channel with slots keeps one
\* ChannelFunction per slot of its own; and no build of an input with str
\* names and complete slots raises an error.
OneWheelPerName ==
  /\ WheelsWritten =>
       /\ WheelNames = RegisteredNames
       /\ Len(wheels_el) = Cardinality(RegisteredNames)
       /\ \A i \in DOMAIN wheels_el :
            /\ WheelMappers(wheels_el[i].Name) # {}
            /\ Len(wheels_el[i].Slots) =
                 1 + Len(AllChannels(modes_dict)[WheelWriter(wheels_el[i].Name)].slots)
  /\ \A m \in Begun : \A x \in DOMAIN Els(m) :
       LET ch  == Chs(m)[Els(m)[x].src]
           cfs == Els(m)[x].LogicalChannel.ChannelFunctions
       IN ch.slots # <<>> =>
            /\ Len(cfs) = Len(ch.slots)
            /\ \A k \in DOMAIN cfs :
                 cfs[k].Name = _safe_xml_name(ch.slots[k].name, <<"S","l","o","t">> \o Str(k))

C11_OneWheelPerName ==
  WellFormed(modes_dict) => pc # "raised" /\ OneWheelPerName

\* C11 witness: two modes hold one "Gobo Wheel" channel with two slots each;
\* the returned document has one Wheel and both channels have their two
\* ChannelFunctions.
C11_Witness ==
  /\ pc = "done"
  /\ Len(modes_dict) = 2
  /\ \A m \in 1..2 :
       /\ Len(Chs(m)) = 1
       /\ Chs(m)[1].name = GoboWheel
       /\ Len(Els(m)) = 1
       /\ Len(Els(m)[1].LogicalChannel.ChannelFunctions) = 2
  /\ Len(wheels_el) = 1
  /\ Len(wheels_el[1].Slots) = 3

\* the position in scan order over all modes of entry i of mode m
ScanPos(m, i) == Sum([j \in 1..(m - 1) |-> Len(Chs(j))], m - 1) + i

Open == <<"O","p","e","n">>

\* the emitted channels that have slots and whose attribute has a wheel
WheelChannels ==
  UNION {{<<m, x>> : x \in {y \in DOMAIN Els(m) :
                             /\ Chs(m)[Els(m)[y].src].slots # <<>>
                             /\ registry_get(wheel_registry,
                                             Els(m)[y].LogicalChannel.Attribute) # <<>>}} :
         m \in Begun}

\* C12 as stated: every emitted channel with n slots whose attribute has a
\* wheel carries WheelSlotIndex "1".."n" in slot order, and the Wheel its
\* ChannelFunctions reference has exactly n + 1 Slots, the first named "Open",
\* whether or not the channel is the one that wrote the Wheel.
C12_Original ==
  \A mx \in WheelChannels :
    LET el  == Els(mx[1])[mx[2]]
        ch  == Chs(mx[1])[el.src]
        cfs == el.LogicalChannel.ChannelFunctions
    IN /\ \A k \in DOMAIN cfs : cfs[k].WheelSlotIndex = Str(k)
       /\ \E i \in DOMAIN wheels_el :
            /\ wheels_el[i].Name = cfs[1].Wheel
            /\ wheels_el[i].Slots[1] = Open
            /\ Len(wheels_el[i].Slots) = Len(ch.slots) + 1

\* C12: every emitted channel with n slots whose attribute has a wheel has n
\* ChannelFunctions that carry WheelSlotIndex "1".."n" in slot order and all
\* reference the registered wheel name; exactly one Wheel element has that
\* name, its first Slot is "Open", and it holds one more Slot than the
\* channel that wrote it has slots: n + 1 when the channel itself is the
\* first in scan order that maps to the name.
C12_SlotIndexing ==
  \A mx \in WheelChannels :
    LET el    == Els(mx[1])[mx[2]]
        ch    == Chs(mx[1])[el.src]
        cfs   == el.LogicalChannel.ChannelFunctions
        wname == registry_get(wheel_registry, el.LogicalChannel.Attribute)
        named == {i \in DOMAIN wheels_el : wheels_el[i].Name = wname}
    IN /\ Len(cfs) = Len(ch.slots)
       /\ \A k \in DOMAIN cfs : cfs[k].WheelSlotIndex = Str(k) /\ cfs[k].Wheel = wname
       /\ Cardinality(named) = 1
       /\ \A i \in named :
            /\ wheels_el[i].Slots[1] = Open
            /\ Len(wheels_el[i].Slots) =
                 1 + Len(AllChannels(modes_dict)[WheelWriter(wname)].slots)
            /\ WheelWriter(wname) = ScanPos(mx[1], el.src) =>
                 Len(wheels_el[i].Slots) = Len(ch.slots) + 1

\* C12 witness: a "Gobo.2" channel with three slots wrote its wheel; its
\* ChannelFunctions carry the indices 1, 2, 3 and the Wheel has four Slots.
C12_Witness ==
  /\ pc = "done"
  /\ \E mx \in WheelChannels :
       LET el  == Els(mx[1])[mx[2]]
           ch  == Chs(mx[1])[el.src]
           cfs == el.LogicalChannel.ChannelFunctions
       IN /\ ch.name = <<"G","o","b","o",".","2">>
          /\ Len(ch.slots) = 3
          /\ <<cfs[1].WheelSlotIndex, cfs[2].WheelSlotIndex, cfs[3].WheelSlotIndex>>
               = <<<<"1">>, <<"2">>, <<"3">>>>
          /\ WheelWriter(cfs[1].Wheel) = ScanPos(mx[1], el.src)
          /\ \E i \in DOMAIN wheels_el :
               wheels_el[i].Name = cfs[1].Wheel /\ Len(wheels_el[i].Slots) = 4

----------------------------------------------------------------------------
(* Claims about the ChannelFunctions and InitialFunction *)

\* the emitted channels, as pairs of mode and element position
Emitted == UNION {{<<m, x>> : x \in DOMAIN Els(m)} : m \in Begun}

ElAt(mx) == Els(mx[1])[mx[2]]
ChOf(mx) == Chs(mx[1])[ElAt(mx).src]
CfsOf(mx) == ElAt(mx).LogicalChannel.ChannelFunctions

Macro == <<"M","a","c","r","o">>
Pan == <<"P","a","n">>
Bangs == <<"!","!","!">>

\* C13: for each slot at 1-based position n of an emitted channel the
\* ChannelFunction has DMXFrom and Default "{dmx_from}/1", RealFade and
\* RealAcceleration "0", and WheelSlotIndex n with a Wheel attribute if the
\* channel's resolved attribute is wheel-capable, else "0" without a Wheel
\* attribute; a channel with no slots has exactly one ChannelFunction, named
\* after its attribute, with DMXFrom "0/1", PhysicalFrom 0.0, PhysicalTo 1.0
\* and WheelSlotIndex "0".
C13_ChannelFunctionFields ==
  \A mx \in Emitted :
    LET ch     == ChOf(mx)
        cfs    == CfsOf(mx)
        attr   == resolved(ch.name).attr
        wheely == attr \in WHEEL_ATTRS
    IN IF ch.slots # <<>>
         THEN /\ Len(cfs) = Len(ch.slots)
              /\ \A n \in DOMAIN cfs :
                   /\ cfs[n].DMXFrom = Str(ch.slots[n].dmx_from) \o <<"/","1">>
                   /\ cfs[n].Default = cfs[n].DMXFrom
                   /\ cfs[n].RealFade = <<"0">>
                   /\ cfs[n].RealAcceleration = <<"0">>
                   /\ cfs[n].WheelSlotIndex = (IF wheely THEN Str(n) ELSE <<"0">>)
                   /\ wheely <=> "Wheel" \in DOMAIN cfs[n]
         ELSE /\ Len(cfs) = 1
              /\ cfs[1].Name = attr
              /\ cfs[1].DMXFrom = <<"0","/","1">>
              /\ cfs[1].PhysicalFrom = 0
              /\ cfs[1].PhysicalTo = 1000000
              /\ cfs[1].WheelSlotIndex = <<"0">>
              /\ "Wheel" \notin DOMAIN cfs[1]

\* C13 witness: a returned document holds a "Macro" channel whose two slots
\* start at 0 and 10 (indices "1" and "2", a Wheel attribute), a "Pan"
\* channel with one slot (index "0", no Wheel attribute) and a "!!!" channel
\* without slots (one ChannelFunction).
C13_Witness ==
  /\ pc = "done"
  /\ \E mx \in Emitted :
       /\ ChOf(mx).name = Macro
       /\ Len(CfsOf(mx)) = 2
       /\ CfsOf(mx)[1].WheelSlotIndex = <<"1">>
       /\ CfsOf(mx)[2].WheelSlotIndex = <<"2">>
       /\ CfsOf(mx)[1].DMXFrom = <<"0","/","1">>
       /\ CfsOf(mx)[2].Default = <<"1","0","/","1">>
       /\ "Wheel" \in DOMAIN CfsOf(mx)[2]
  /\ \E mx \in Emitted :
       /\ ChOf(mx).name = Pan
       /\ Len(CfsOf(mx)) = 1
       /\ CfsOf(mx)[1].WheelSlotIndex = <<"0">>
       /\ "Wheel" \notin DOMAIN CfsOf(mx)[1]
  /\ \E mx \in Emitted :
       /\ ChOf(mx).name = Bangs
       /\ Len(CfsOf(mx)) = 1
       /\ CfsOf(mx)[1].Name = <<"_","_","_">>

\* s.split("."): the segments of s between its dots
RECURSIVE split(_, _)
split(s, seg) ==
  IF s = <<>> THEN <<seg>>
  ELSE IF Head(s) = "." THEN <<seg>> \o split(Tail(s), <<>>)
  ELSE split(Tail(s), Append(seg, Head(s)))

\* C14: the InitialFunction of every emitted DMXChannel splits at its dots
\* into exactly four segments: the Name of the enclosing DMXMode (the
\* sanitised mode name), the sanitised channel name, the resolved attribute
\* (the LogicalChannel's Attribute) and the Name of the first
\* ChannelFunction; so it holds exactly three dots, for custom attributes too.
C14_InitialFunction ==
  \A m \in Begun :
    LET mode_name == _safe_xml_name(modes_dict[m].name, <<"M","o","d","e">>)
    IN \A x \in DOMAIN Els(m) :
         LET mx    == <<m, x>>
             el    == ElAt(mx)
             ch    == ChOf(mx)
             parts == split(el.InitialFunction, <<>>)
         IN /\ parts =
                 << mode_name,
                    _safe_xml_name(ch.name, <<"C","h">> \o Str(el.Offset[1])),
                    resolved(ch.name).attr,
                    CfsOf(mx)[1].Name >>
            /\ dmx_modes_el[m].Name = parts[1]
            /\ el.LogicalChannel.Attribute = parts[3]
            /\ Cardinality({i \in DOMAIN el.InitialFunction : el.InitialFunction[i] = "."}) = 3

\* C14 witness: a returned document holds the channel "Pan.Tilt" in its first
\* mode with InitialFunction "Mode_10_Channel.Pan_Tilt.Pan.Pan" and a channel
\* "!!!", whose attribute is the custom name "___".
C14_Witness ==
  /\ pc = "done"
  /\ \E mx \in Emitted :
       /\ ChOf(mx).name = <<"P","a","n",".","T","i","l","t">>
       /\ ElAt(mx).InitialFunction =
            <<"M","o","d","e","_","1","0","_","C","h","a","n","n","e","l",".",
              "P","a","n","_","T","i","l","t",".","P","a","n",".","P","a","n">>
  /\ \E mx \in Emitted :
       /\ ChOf(mx).name = Bangs
       /\ ElAt(mx).LogicalChannel.Attribute = <<"_","_","_">>
       /\ Len(split(ElAt(mx).InitialFunction, <<>>)) = 4

\* text is not blank and nothing of it survives the sanitiser: it holds no
\* letter, digit or hyphen, and no degree or percent sign, which the
\* sanitiser spells out
SanitisesToNothing(text) ==
  /\ ~IsBlank(text)
  /\ \A i \in DOMAIN text :
       text[i] \notin UpperSet \cup LowerSet \cup DigitSet \cup {"-", "°", "%"}

\* C15 as stated: a channel name that sanitises to nothing gives the channel
\* segment "Ch{offset}" of InitialFunction, and a slot label that sanitises to
\* nothing gives the ChannelFunction Name "Slot{n}" at 1-based position n.
C15_Original ==
  \A mx \in Emitted :
    /\ SanitisesToNothing(ChOf(mx).name) =>
         split(ElAt(mx).InitialFunction, <<>>)[2] = <<"C","h">> \o Str(ElAt(mx).Offset[1])
    /\ \A n \in DOMAIN ChOf(mx).slots :
         SanitisesToNothing(ChOf(mx).slots[n].name) =>
           CfsOf(mx)[n].Name = <<"S","l","o","t">> \o Str(n)

\* C15: a channel name that sanitises to nothing gives the channel segment
\* "Ch{offset}_" of InitialFunction, with the channel's first DMX offset and a
\* trailing underscore, and a slot label that sanitises to nothing gives the
\* ChannelFunction Name "Slot{n}_" at 1-based position n.
C15_FallbackNames ==
  \A mx \in Emitted :
    /\ SanitisesToNothing(ChOf(mx).name) =>
         split(ElAt(mx).InitialFunction, <<>>)[2] =
           <<"C","h">> \o Str(ElAt(mx).Offset[1]) \o <<"_">>
    /\ \A n \in DOMAIN ChOf(mx).slots :
         SanitisesToNothing(ChOf(mx).slots[n].name) =>
           CfsOf(mx)[n].Name = <<"S","l","o","t">> \o Str(n) \o <<"_">>

\* C15 witness: a returned document holds the channel "!!!" at offset 2 with
\* the channel segment "Ch2_", and a "Macro" channel whose first slot "!!" has
\* the ChannelFunction Name "Slot1_".
C15_Witness ==
  /\ pc = "done"
  /\ \E mx \in Emitted :
       /\ ChOf(mx).name = Bangs
       /\ ElAt(mx).Offset[1] = 2
       /\ split(ElAt(mx).InitialFunction, <<>>)[2] = <<"C","h","2","_">>
  /\ \E mx \in Emitted :
       /\ ChOf(mx).name = Macro
       /\ ChOf(mx).slots[1].name = <<"!","!">>
       /\ CfsOf(mx)[1].Name = <<"S","l","o","t","1","_">>

----------------------------------------------------------------------------
(* Claims about the AttributeDefinitions block *)

AttrDefsWritten == pc \notin {"start", "attrs", "raised"}

\* the non-blank, non-fine channels of all modes, in scan order
CoarseChannels ==
  SelectSeq(AllChannels(modes_dict),
            LAMBDA ch : ~ch.is_fine_byte /\ ~IsBlank(ch.name))

\* the distinct values of a sequence, each at its first position
RECURSIVE FirstSeen(_, _)
FirstSeen(s, acc) ==
  IF s = <<>> THEN acc
  ELSE FirstSeen(Tail(s), IF Head(s) \in Range(acc) THEN acc ELSE Append(acc, Head(s)))

\* what the last channel that resolves to attribute a resolves to
LastResolved(a) ==
  LET cc   == CoarseChannels
      hits == {i \in DOMAIN cc : resolved(cc[i].name).attr = a}
  IN resolved(cc[CHOOSE i \in hits : \A j \in hits : j <= i].name)

\* the (feature group, feature) pairs of the FeatureGroups block, one per
\* Feature element
FeaturePairs ==
  UNION {{<<g, k>> : k \in DOMAIN attr_defs.FeatureGroups[g].Features} :
           g \in DOMAIN attr_defs.FeatureGroups}
PairAt(gk) ==
  <<attr_defs.FeatureGroups[gk[1]].Name,
    attr_defs.FeatureGroups[gk[1]].Features[gk[2]].Name>>

\* C16: the Attribute elements are the distinct attributes resolved from the
\* non-blank, non-fine channels of all modes, one each, in first-seen order,
\* each with the groups of the last channel that resolves to it; the
\* ActivationGroup elements are the distinct activation groups of those
\* Attribute elements, one each, in first-seen order; the Feature elements
\* are their distinct (feature group, feature) pairs, one each; and a
\* fine-byte entry, whatever its name and slots, adds no Attribute, no
\* ActivationGroup, no wheel registration, no Wheel and no DMXChannel.
C16_AttributeDefinitions ==
  /\ AttrDefsWritten =>
       LET A == attr_defs.Attributes
       IN /\ [i \in DOMAIN A |-> A[i].Name] =
               FirstSeen([i \in DOMAIN CoarseChannels |->
                            resolved(CoarseChannels[i].name).attr], <<>>)
          /\ \A i \in DOMAIN A :
               LET last == LastResolved(A[i].Name)
               IN /\ A[i].ActivationGroup = last.ag
                  /\ A[i].Feature = last.fg \o <<".">> \o last.feat
          /\ [i \in DOMAIN attr_defs.ActivationGroups |-> attr_defs.ActivationGroups[i].Name] =
               FirstSeen([i \in DOMAIN A |-> A[i].ActivationGroup], <<>>)
          /\ {PairAt(gk) : gk \in FeaturePairs} =
               {LET last == LastResolved(A[i].Name) IN <<last.fg, last.feat>> : i \in DOMAIN A}
          /\ Cardinality(FeaturePairs) = Cardinality({PairAt(gk) : gk \in FeaturePairs})
          /\ \A g, h \in DOMAIN attr_defs.FeatureGroups :
               attr_defs.FeatureGroups[g].Name = attr_defs.FeatureGroups[h].Name => g = h
  /\ WheelsWritten =>
       /\ \A r \in Range(wheel_registry) :
            \E i \in DOMAIN CoarseChannels :
              /\ CoarseChannels[i].slots # <<>>
              /\ resolved(CoarseChannels[i].name).attr = r.attr
       /\ Len(wheels_el) <= Len(wheel_registry)
  /\ \A mx \in Emitted : ~ChOf(mx).is_fine_byte
  /\ \A m \in Closed :
       Len(Els(m)) = Cardinality({i \in DOMAIN Chs(m) : CoarseAt(m, i)})

\* C16 witness: a returned document of "Pan", "Tilt" and the fine byte
\* "Gobo Fine" with a slot has the Attributes Pan and Tilt, the one
\* ActivationGroup PanTilt, the one Feature Position.Position, no wheel and
\* two DMXChannels.
C16_Witness ==
  /\ pc = "done"
  /\ Len(modes_dict) = 1
  /\ [i \in DOMAIN Chs(1) |-> Chs(1)[i].name] =
       << Pan, <<"T","i","l","t">>, <<"G","o","b","o"," ","F","i","n","e">> >>
  /\ Chs(1)[3].is_fine_byte /\ Chs(1)[3].slots # <<>>
  /\ [i \in DOMAIN attr_defs.Attributes |-> attr_defs.Attributes[i].Name] =
       << Pan, <<"T","i","l","t">> >>
  /\ attr_defs.ActivationGroups = << [Name |-> <<"P","a","n","T","i","l","t">>] >>
  /\ Cardinality(FeaturePairs) = 1
  /\ wheel_registry = <<>> /\ wheels_el = <<>>
  /\ Len(Els(1)) = 2

\* C16 witness of the shared attribute: "xyz x", "Pan" and "XYZ_X" in this
\* order give the Attributes XYZ_X and Pan and the ActivationGroups XYZ_X and
\* PanTilt.
C16_SharedAttribute ==
  /\ pc = "done"
  /\ Len(modes_dict) = 1
  /\ [i \in DOMAIN Chs(1) |-> Chs(1)[i].name] =
       << <<"x","y","z"," ","x">>, Pan, <<"X","Y","Z","_","X">> >>
  /\ [i \in DOMAIN attr_defs.ActivationGroups |-> attr_defs.ActivationGroups[i].Name] =
       << <<"X","Y","Z","_","X">>, <<"P","a","n","T","i","l","t">> >>

----------------------------------------------------------------------------
(* Claims about whole builds *)

\* a result with the value of FixtureTypeID blanked, in the returned document
\* and in the archive's entry
WithoutFixtureTypeID(r) ==
  [r EXCEPT !.xml_data.GDTF.FixtureType.attributes.FixtureTypeID = <<>>,
            !.gdtf_bytes[1].data.GDTF.FixtureType.attributes.FixtureTypeID = <<>>]

\* C17 as stated: any two runs of build_gdtf followed by create_gdtf_package
\* on the same input give the same document and the same archive except for
\* the value of FixtureTypeID.
C17_Original ==
  \A i, j \in DOMAIN out :
    WithoutFixtureTypeID(out[i]) = WithoutFixtureTypeID(out[j])

\* the documents of any two runs on the same input agree except for
\* FixtureTypeID
C17_SameDocument ==
  \A i, j \in DOMAIN out :
    WithoutFixtureTypeID(out[i]).xml_data = WithoutFixtureTypeID(out[j]).xml_data

\* two runs on one input were packaged at different local times
C17_LaterRun ==
  /\ Len(out) = 2
  /\ out[1].gdtf_bytes[1].date_time # out[2].gdtf_bytes[1].date_time
  /\ out[1].xml_data = out[2].xml_data

\* the input is the scenario's list itself
IsPar64 ==
  /\ args = [fixture_name |-> <<"P","a","r","6","4">>, manufacturer |-> <<"A","c","m","e">>]
  /\ Len(modes_dict) = 1
  /\ modes_dict[1].name = <<"8","c","h">>
  /\ Chs(1) = Par64Channels

\* C18 as stated: for the scenario's input the returned document has a
\* DMXMode named "8ch" with 4 DMXChannels at offsets 1 to 4, and one Wheel
\* with "Open" and the 2 declared slots.
C18_Original ==
  BuildReturned /\ IsPar64 =>
    /\ Len(dmx_modes_el) = 1
    /\ dmx_modes_el[1].Name = <<"8","c","h">>
    /\ [x \in DOMAIN Els(1) |-> Els(1)[x].Offset] = << <<1>>, <<2>>, <<3>>, <<4>> >>
    /\ Len(wheels_el) = 1
    /\ Len(wheels_el[1].Slots) = 3

\* C18: for the scenario's input the returned document has one DMXMode, named
\* "Mode_8ch", with 5 DMXChannels at offsets 1 to 5 for the attributes Dimmer,
\* ColorAdd_R, ColorAdd_G, ColorAdd_B and Shutter1Strobe, and one Wheel, named
\* "Strobe", with the Slots "Open", "Closed", "Open"; with rows added to the
\* list the mode name, the five attributes in order and the Wheel stay.
C18_Par64Document ==
  BuildReturned =>
    /\ Len(dmx_modes_el) = 1
    /\ dmx_modes_el[1].Name = <<"M","o","d","e","_","8","c","h">>
    /\ [x \in DOMAIN Els(1) |-> Els(1)[x].LogicalChannel.Attribute] =
         << <<"D","i","m","m","e","r">>,
            <<"C","o","l","o","r","A","d","d","_","R">>,
            <<"C","o","l","o","r","A","d","d","_","G">>,
            <<"C","o","l","o","r","A","d","d","_","B">>,
            <<"S","h","u","t","t","e","r","1","S","t","r","o","b","e">> >>
    /\ wheels_el = << [Name  |-> <<"S","t","r","o","b","e">>,
                       Slots |-> << Open, <<"C","l","o","s","e","d">>, Open >>] >>
    /\ IsPar64 =>
         [x \in DOMAIN Els(1) |-> Els(1)[x].Offset] = << <<1>>, <<2>>, <<3>>, <<4>>, <<5>> >>

\* C18 witness: the build of the scenario's input has returned, with five
\* DMXChannels.
C18_Witness ==
  /\ pc = "done"
  /\ IsPar64
  /\ Len(Els(1)) = 5
  /\ Els(1)[5].InitialFunction =
       <<"M","o","d","e","_","8","c","h",".","S","t","r","o","b","e",".",
         "S","h","u","t","t","e","r","1","S","t","r","o","b","e",".","C","l","o","s","e","d">>

\* mode m holds no channel of its own: its list is empty or holds only
\* blank-named rows and fine bytes
NoCoarse(m) ==
  \A i \in DOMAIN Chs(m) :
    /\ Chs(m)[i].name # None
    /\ IsBlank(Chs(m)[i].name) \/ Chs(m)[i].is_fine_byte

\* C19: a mode whose channel list is empty or holds only blank-named rows and
\* fine bytes has, from the moment its DMXMode element exists, a DMXChannels
\* element without children; when build_gdtf returns, every mode has its
\* complete DMXMode element, in input order; and a build raises only if some
\* entry is not of that kind: an input of such modes alone never raises.
C19_EmptyModes ==
  /\ \A m \in Begun : NoCoarse(m) => Els(m) = <<>>
  /\ BuildReturned =>
       /\ Len(dmx_modes_el) = Len(modes_dict)
       /\ \A m \in DOMAIN modes_dict :
            /\ m \in Closed
            /\ dmx_modes_el[m].Name = _safe_xml_name(modes_dict[m].name, <<"M","o","d","e">>)
  /\ pc = "raised" => \E m \in DOMAIN modes_dict : ~NoCoarse(m)

\* C19 witness: build_gdtf has returned for an input whose first mode holds a
\* fine byte with a slot and a blank-named row and whose second mode is
\* empty; both DMXMode elements are complete and have no DMXChannel.
C19_Witness ==
  /\ pc = "done"
  /\ Len(modes_dict) = 2
  /\ Len(Chs(1)) = 2
  /\ Chs(1)[1].is_fine_byte /\ Chs(1)[1].slots # <<>> /\ ~IsBlank(Chs(1)[1].name)
  /\ IsBlank(Chs(1)[2].name)
  /\ Chs(2) = <<>>
  /\ Closed = {1, 2}
  /\ Els(1) = <<>> /\ Els(2) = <<>>

\* the modes that hold an entry whose name is not a str or whose slot lacks
\* an attribute
IllFormedModes ==
  {m \in DOMAIN modes_dict :
     \E i \in DOMAIN Chs(m) :
       \/ Chs(m)[i].name = None
       \/ \E k \in DOMAIN Chs(m)[i].slots : "physical_from" \notin DOMAIN Chs(m)[i].slots[k]}

CallEnded == pc \in {"raised", "done", "packed"}

\* C20 as stated: a call whose input holds an entry with a missing field or a
\* value of the wrong type ends with an error whose message names a mode that
\* holds such an entry, and yields no XML string and no byte buffer.
C20_Original ==
  CallEnded /\ IllFormedModes # {} =>
    /\ pc = "raised"
    /\ \E m \in IllFormedModes : Contains(out[Len(out)].raised.message, modes_dict[m].name)
    /\ \A i \in DOMAIN out : DOMAIN out[i] = {"raised"}

\* a call on an input whose only entry has the name None ends with the
\* AttributeError of the str method
C20_GenericFailure ==
  /\ pc = "raised"
  /\ Len(modes_dict) = 1
  /\ Chs(1) = <<ChannelDef(None, FALSE, <<>>)>>
  /\ out = << [raised |-> AttributeError(NoneType, <<"s","t","r","i","p">>)] >>
  /\ dmx_modes_el = <<>>

\* a call on an input whose only entry is a blank-named row with a slot that
\* lacks physical_from returns a document
C20_SilentSuccess ==
  /\ pc = "packed"
  /\ Len(modes_dict) = 1
  /\ Len(Chs(1)) = 1
  /\ IllFormedModes = {1}
  /\ Len(out) = 1
  /\ "xml_data" \in DOMAIN out[1]

----------------------------------------------------------------------------
(* Claims about the front ends *)

Converted == pc \notin {"idle"}

\* the slot records of the input's channel that get a ChannelSlot: those
\* with a name (parser), those with a non-blank label (editor)
InputSlots ==
  IF parsed # NoCall
    THEN SelectSeq(parsed.modes[1].channels[1].slots, LAMBDA s : "name" \in DOMAIN s)
    ELSE SelectSeq(heap[modes[1].channel_list][1].slots, LAMBDA s : ~IsBlank(s.name))

\* the ChannelSlots built from them
BuiltSlots == Chs(1)[1].slots

\* C21 as stated: every input slot's dmx_from and dmx_to, integers in
\* [0, 255], are those of the ChannelSlot built from it, on the parser path
\* and on the editor path, and the emitted ChannelFunction has DMXFrom
\* "{dmx_from}/1".
C21_Original ==
  Converted =>
    /\ Len(BuiltSlots) = Len(InputSlots)
    /\ \A k \in DOMAIN InputSlots :
         /\ BuiltSlots[k].dmx_from = InputSlots[k].dmx_from
         /\ BuiltSlots[k].dmx_to = InputSlots[k].dmx_to
    /\ \A mx \in Emitted : \A k \in DOMAIN InputSlots :
         CfsOf(mx)[k].DMXFrom = Str(InputSlots[k].dmx_from) \o <<"/","1">>

\* what holds of the bounds: the editor path passes both through, the parser
\* path passes dmx_from through and turns a dmx_to of 0 into 255
C21_PassThroughButZero ==
  Converted =>
    /\ Len(BuiltSlots) = Len(InputSlots)
    /\ \A k \in DOMAIN InputSlots :
         /\ BuiltSlots[k].dmx_from = InputSlots[k].dmx_from
         /\ BuiltSlots[k].dmx_to =
              (IF parsed # NoCall /\ InputSlots[k].dmx_to = 0 THEN 255
               ELSE InputSlots[k].dmx_to)
    /\ \A mx \in Emitted : \A k \in DOMAIN InputSlots :
         CfsOf(mx)[k].DMXFrom = Str(InputSlots[k].dmx_from) \o <<"/","1">>

\* a parser slot with dmx_to = 0 was built with dmx_to = 255
C21_ZeroBecomes255 ==
  /\ pc = "done"
  /\ parsed # NoCall
  /\ \E k \in DOMAIN InputSlots : InputSlots[k].dmx_to = 0 /\ BuiltSlots[k].dmx_to = 255

\* C22 as stated: for an input slot without physical values the emitted
\* PhysicalFrom and PhysicalTo are dmx_from/255 and dmx_to/255 at 6 decimals,
\* on the editor path and on the parser path, and physical values that the
\* record gives, 0.0 included, are emitted as given.
C22_Original ==
  \A mx \in Emitted : \A k \in DOMAIN InputSlots :
    LET s == InputSlots[k]
        cf == CfsOf(mx)[k]
    IN /\ cf.PhysicalFrom = (IF "physical_from" \in DOMAIN s THEN s.physical_from
                             ELSE Round6(s.dmx_from))
       /\ cf.PhysicalTo = (IF "physical_to" \in DOMAIN s THEN s.physical_to
                           ELSE Round6(s.dmx_to))

\* what holds of the physical values: the editor path emits dmx/255; the
\* parser path emits a given value unless it is 0.0, and else 0.0 and 1.0
C22_EditorOnly ==
  \A mx \in Emitted : \A k \in DOMAIN InputSlots :
    LET s == InputSlots[k]
        cf == CfsOf(mx)[k]
    IN IF parsed = NoCall
         THEN cf.PhysicalFrom = Round6(s.dmx_from) /\ cf.PhysicalTo = Round6(s.dmx_to)
         ELSE /\ cf.PhysicalFrom = (IF "physical_from" \in DOMAIN s THEN s.physical_from ELSE 0)
              /\ cf.PhysicalTo = (IF "physical_to" \in DOMAIN s /\ s.physical_to # 0
                                    THEN s.physical_to ELSE 1000000)

\* a parser slot 200..100 without physical values was emitted with
\* PhysicalFrom 0.0 and PhysicalTo 1.0
C22_ParserDefaults ==
  /\ pc = "done"
  /\ parsed # NoCall
  /\ \E mx \in Emitted : \E k \in DOMAIN InputSlots :
       /\ InputSlots[k].dmx_from = 200
       /\ "physical_from" \notin DOMAIN InputSlots[k]
       /\ CfsOf(mx)[k].PhysicalFrom = 0
       /\ CfsOf(mx)[k].PhysicalTo = 1000000

----------------------------------------------------------------------------
(* Claims about the editor's modes *)

\* the operation the step has just done
Done == ops'[Len(ops')]

\* the channel lists of the modes, in the order of the list
ChannelLists == [k \in DOMAIN modes |-> channel_list_of(k)]

\* C23: add_mode, copy_mode and remove_mode never leave the mode list empty,
\* remove_mode on a list of one mode changes nothing, copy_mode(i) puts at
\* position i + 1 a copy of mode i with equal channels and slots, and a
\* change to the channels or slots of one mode changes no other mode
C23_ModeLifecycle ==
  [][ops' # ops =>
       /\ Len(modes') >= 1
       /\ (Done.op = "remove" /\ Len(modes) = 1) =>
             (modes' = modes /\ ChannelLists' = ChannelLists)
       /\ (Done.op = "remove" /\ Len(modes) > 1) =>
             (modes' = pop(modes, Done.i) /\ ChannelLists' = pop(ChannelLists, Done.i))
       /\ Done.op = "copy" =>
             /\ ChannelLists' = insert_after(ChannelLists, Done.i, ChannelLists[Done.i])
             /\ [k \in DOMAIN modes' |-> modes'[k].name]
                  = insert_after([k \in DOMAIN modes |-> modes[k].name], Done.i,
                                 modes[Done.i].name \o <<" ","(","C","o","p","y",")">>)
       /\ Done.op \in {"pick", "slot"} =>
             /\ modes' = modes
             /\ ChannelLists'[Done.i] # ChannelLists[Done.i]
             /\ \A k \in DOMAIN modes : k # Done.i => ChannelLists'[k] = ChannelLists[k]
  ]_vars

\* a mode was copied and the copy then edited: the two differ
C23_Witness ==
  /\ Len(ops) = 2
  /\ ops[1] = [op |-> "copy", i |-> 1]
  /\ ops[2].op \in {"pick", "slot"} /\ ops[2].i = 2
  /\ ChannelLists[1] = InitialChannelList
  /\ ChannelLists[2] # InitialChannelList

\* the names of the modes, in the order of the list
Names == [k \in DOMAIN modes |-> modes[k].name]

Distinct(s) == \A a, b \in DOMAIN s : a # b => s[a] # s[b]

\* the mapping gen_manual makes of the list
ModesDict == editor_modes_dict(modes, heap, <<>>)

\* C30 as stated: after any add_mode, copy_mode and remove_mode, without
\* renaming, the mode names are pairwise distinct and the mapping made of
\* the list holds every mode
C30_Original ==
  /\ Distinct(Names)
  /\ Len(ModesDict) = Len(modes)

\* C30: while modes have only been added (and their channels and slots
\* edited), the mode names are pairwise distinct and the mapping made of the
\* list holds every mode
C30_DistinctWhileOnlyAdded ==
  (\A k \in DOMAIN ops : ops[k].op \in {"add", "pick", "slot"}) =>
     /\ Distinct(Names)
     /\ Len(ModesDict) = Len(modes)

\* the same mode copied twice: two modes named "10 Channel (Copy)", one of
\* them lost in the mapping
C30_CopiedTwice ==
  /\ ops = << [op |-> "copy", i |-> 1], [op |-> "copy", i |-> 1] >>
  /\ Names[2] = Names[3]
  /\ Len(ModesDict) = 2

----------------------------------------------------------------------------
(* Claims about the slot editor *)

\* the slots held by the editor: <<mode, channel, slot>> positions
EditorSlots ==
  UNION {UNION {{<<j, c, k>> : k \in DOMAIN channel_list_of(j)[c].slots}
                  : c \in DOMAIN channel_list_of(j)}
           : j \in DOMAIN modes}

SlotAt(p) == channel_list_of(p[1])[p[2]].slots[p[3]]

InRange(slot) ==
  /\ 0 <= slot.dmx_from
  /\ slot.dmx_from <= slot.dmx_to
  /\ slot.dmx_to <= 255

\* C25 as stated: after any sequence of "Add slot" actions every slot of the
\* channel has 0 <= dmx_from <= dmx_to <= 255
C25_Original == \A p \in EditorSlots : InRange(SlotAt(p))

\* C25, as far as it holds: the first 24 slots that "Add slot" makes on a
\* channel are 0..10, 11..21, ..., 242..252, 253..255, and each one after
\* them is 256..255
C25_UpToTwentyFour ==
  \A p \in EditorSlots :
     /\ p[3] <= 23 => SlotAt(p) = make_slot_entry(11 * (p[3] - 1), 11 * (p[3] - 1) + 10, <<>>)
     /\ p[3] = 24 => SlotAt(p) = make_slot_entry(253, 255, <<>>)
     /\ p[3] >= 25 => SlotAt(p) = make_slot_entry(256, 255, <<>>)

\* the twenty-fifth "Add slot" on a channel
C25_TwentyFifth ==
  \E p \in EditorSlots :
     /\ p[3] = 25
     /\ SlotAt(p).dmx_from = 256
     /\ SlotAt(p).dmx_to = 255

----------------------------------------------------------------------------
(* Claims about modes of one name *)

\* the non-blank names of the editor's modes
EditorNames == {modes[k].name : k \in {j \in DOMAIN modes : ~IsBlank(modes[j].name)}}

\* the last mode of the list that has the name
LastNamed(name) ==
  CHOOSE k \in DOMAIN modes :
    /\ modes[k].name = name
    /\ \A j \in DOMAIN modes : modes[j].name = name => j <= k

\* the DMXModes of the document made for the name
ModesFor(name) ==
  {m \in Begun : dmx_modes_el[m].Name = _safe_xml_name(name, <<"M","o","d","e">>)}

\* the names of the channels a DMXMode was built from
SourceNames(m) == [x \in DOMAIN Els(m) |-> Chs(m)[Els(m)[x].src].name]

\* the names of the coarse, non-blank channels of an editor list
CoarseNames(channel_list) ==
  LET kept == SelectSeq(channel_list, LAMBDA ch : ~IsBlank(ch.name) /\ ~ch.is_fine)
  IN [x \in DOMAIN kept |-> kept[x].name]

\* C24: with modes of one name in the editor, generating raises nothing and
\* the document holds one DMXMode for the name, built from the channel list
\* of the last mode of that name; modes with a blank name are not in the
\* document
C24_LastNamesakeWins ==
  /\ pc # "raised"
  /\ Converted =>
       /\ {modes_dict[m].name : m \in DOMAIN modes_dict} = EditorNames
       /\ Len(modes_dict) = Cardinality(EditorNames)
       /\ \A m \in DOMAIN modes_dict :
            Chs(m) = channel_defs_from_mode(channel_list_of(LastNamed(modes_dict[m].name)))
  /\ pc \in {"done", "packed"} =>
       /\ Len(dmx_modes_el) = Cardinality(EditorNames)
       /\ \A name \in EditorNames :
            /\ Cardinality(ModesFor(name)) = 1
            /\ \A m \in ModesFor(name) :
                 SourceNames(m) = CoarseNames(channel_list_of(LastNamed(name)))

\* three modes, the first and the last of one name and different channels,
\* and a blank-named one between them: the document holds one DMXMode, built
\* from the last
C24_Witness ==
  /\ pc = "done"
  /\ Len(modes) = 3
  /\ modes[1].name = modes[3].name /\ IsBlank(modes[2].name)
  /\ channel_list_of(1) # channel_list_of(3)
  /\ Len(dmx_modes_el) = 1
  /\ SourceNames(1) = CoarseNames(channel_list_of(3))
  /\ SourceNames(1) # CoarseNames(channel_list_of(1))

----------------------------------------------------------------------------
(* Claims about parse_pdf_with_claude *)

RECURSIVE ConcatChunks(_)
ConcatChunks(rs) ==
  IF rs = <<>> THEN <<>> ELSE ConcatChunks(SubSeq(rs, 1, Len(rs) - 1)) \o rs[Len(rs)].chunk

\* the messages the continuations have added for the responses
RECURSIVE Continuations(_)
Continuations(rs) ==
  IF rs = <<>> THEN <<>>
  ELSE Continuations(SubSeq(rs, 1, Len(rs) - 1)) \o
         (IF rs[Len(rs)].stop_reason = "max_tokens"
            THEN << [role |-> "assistant", content |-> rs[Len(rs)].chunk],
                    [role |-> "user", content |-> ContinuePrompt] >>
            ELSE <<>>)

----------------------------------------------------------------------------
(* Claims about _repair_truncated_json *)

\* the openers of the text that are still open at its end, outermost first
\* (with every closer that closes another opener than the innermost), and
\* whether the text ends inside a string
RECURSIVE open_stack(_, _, _, _, _)
open_stack(text, i, in_string, escape_next, stack) ==
  IF i > Len(text) THEN [in_string |-> in_string, stack |-> stack]
  ELSE LET ch == text[i]
       IN IF escape_next THEN open_stack(text, i + 1, in_string, FALSE, stack)
          ELSE IF ch = "\\" /\ in_string THEN open_stack(text, i + 1, in_string, TRUE, stack)
          ELSE IF ch = "\"" THEN open_stack(text, i + 1, ~in_string, FALSE, stack)
          ELSE IF in_string THEN open_stack(text, i + 1, in_string, FALSE, stack)
          ELSE IF ch \in {"{", "["} THEN open_stack(text, i + 1, in_string, FALSE, Append(stack, ch))
          ELSE IF ch \in {"}", "]"}
            THEN open_stack(text, i + 1, in_string, FALSE,
                   IF stack # <<>> /\ stack[Len(stack)] = (IF ch = "}" THEN "{" ELSE "[")
                     THEN SubSeq(stack, 1, Len(stack) - 1)
                     ELSE Append(stack, ch))
          ELSE open_stack(text, i + 1, in_string, FALSE, stack)

StillOpen(text) == open_stack(text, 1, FALSE, FALSE, <<>>).stack

\* the closers of the openers, innermost first
Closers(stack) ==
  [k \in DOMAIN stack |-> IF stack[Len(stack) + 1 - k] = "{" THEN "}" ELSE "]"]

\* a prefix of a JSON document, cut outside a string at the end of a line
\* that ends in '}', ']', '"' or ','
CutAtLineEnd(text) ==
  /\ ~open_stack(text, 1, FALSE, FALSE, <<>>).in_string
  /\ LET lines == splitlines(text, 1, <<>>)
     IN lines # <<>> /\ ends_complete(lines[Len(lines)])

Repaired == repair # NoCall /\ repair.pc = "done" /\ CutAtLineEnd(repair.text)

\* where the result's added closers begin, when the closers are as many as
\* the openers that are still open
BodyLen == Len(repair.result) - Len(StillOpen(repair.text))

HowMany(stack, c) == Cardinality({k \in DOMAIN stack : stack[k] = c})

\* C27 as stated: for a prefix of a JSON document cut outside a string at a
\* line ending in '}', ']', '"' or ',', the result ends with the closers of
\* every unclosed '[' and '{', in the reverse order of the still-open
\* openers, and no comma stands before them
C27_Original ==
  Repaired =>
    /\ BodyLen >= 0
    /\ SubSeq(repair.result, BodyLen + 1, Len(repair.result)) = Closers(StillOpen(repair.text))
    /\ BodyLen > 0 => repair.result[BodyLen] # ","
    /\ StillOpen(repair.result) = <<>>

\* C27, as far as it holds: the result ends with one ']' for every unclosed
\* '[' followed by one '}' for every unclosed '{', no comma stands before
\* them, and they are properly nested exactly when no '{' is open inside an
\* open '['
C27_BracketsThenBraces ==
  Repaired =>
    LET open == StillOpen(repair.text)
        b    == HowMany(open, "[")
        c    == HowMany(open, "{")
    IN /\ BodyLen >= 0
       /\ SubSeq(repair.result, BodyLen + 1, Len(repair.result)) = times("]", b) \o times("}", c)
       /\ BodyLen > 0 => repair.result[BodyLen] # ","
       /\ StillOpen(repair.result) = <<>> <=> open = times("{", c) \o times("[", b)

\* an object cut inside an array: '{' '[' '{' are open and the result closes
\* them with ']' '}' '}'
C27_ObjectInArray ==
  /\ Repaired
  /\ repair.text = <<"{","\"","m","\"",":","[","{","\"","c","\"",":","[","1",",","2","]",",">>
  /\ repair.result = <<"{","\"","m","\"",":","[","{","\"","c","\"",":","[","1",",","2","]","]","}","}">>

----------------------------------------------------------------------------
(* Claims about the table rows of parse_pdf_with_pdfplumber *)

\* the row the loop handles next
Row == Head(plumber.rows)

\* a row of three or more cells, the first two of them numbers of 1 to 3
\* digits and the third a label, met while a channel is current
MultiCellRangeRow ==
  /\ plumber # NoCall
  /\ plumber.pc = "rows"
  /\ plumber.rows # <<>>
  /\ Len(Row) >= 3
  /\ CHAN_NUM_RE(Row[1])
  /\ CHAN_NUM_RE(Row[2])
  /\ Row[3] # <<>>
  /\ plumber.current_ch_name # None

\* C28 as stated: a multi-cell range row met while a channel is current is
\* appended to the current channel as the slot (dmx_from = cell 0,
\* dmx_to = cell 1, name = cell 2) and starts no new channel
C28_Original ==
  [][MultiCellRangeRow =>
       /\ Len(plumber'.current_slots) = Len(plumber.current_slots) + 1
       /\ LET slot == plumber'.current_slots[Len(plumber'.current_slots)]
          IN /\ slot.dmx_from = int(Row[1])
             /\ slot.dmx_to = int(Row[2])
             /\ slot.name = Row[3]
       /\ plumber'.current_ch_name = plumber.current_ch_name
       /\ plumber'.current_ch_number = plumber.current_ch_number
       /\ plumber'.current_channels = plumber.current_channels
  ]_vars

\* C28, as the code does it: a multi-cell range row met while a channel is
\* current ends that channel and starts a new one, whose number is cell 0
\* and whose name is cell 1; cell 2 becomes no slot
C28_StartsChannel ==
  [][MultiCellRangeRow =>
       /\ plumber'.current_channels = flush_channel(plumber).current_channels
       /\ Len(plumber'.current_channels) = Len(plumber.current_channels) + 1
       /\ plumber'.current_ch_number = int(Row[1])
       /\ plumber'.current_ch_name = Row[2]
       /\ plumber'.current_slots = <<>>
  ]_vars

\* the table "1 | Gobo", "0 | 10 | Open" gives the channels "Gobo", without
\* a slot, and "10"
C28_ChannelNamedTen ==
  /\ plumber # NoCall
  /\ plumber.pc = "returned"
  /\ Len(plumber.result.modes) = 1
  /\ LET channels == plumber.result.modes[1].channels
     IN /\ Len(channels) = 2
        /\ channels[1].name = <<"G","o","b","o">> /\ channels[1].slots = <<>>
        /\ channels[2].name = <<"1","0">> /\ channels[2].number = 0
        /\ channels[2].slots = <<>>

----------------------------------------------------------------------------
(* Claims about the references of the document *)

DocumentMade == pc \in {"done", "packed"}

AttributeNames == {attr_defs.Attributes[i].Name : i \in DOMAIN attr_defs.Attributes}

ActivationGroupNames ==
  {attr_defs.ActivationGroups[i].Name : i \in DOMAIN attr_defs.ActivationGroups}

\* "fg.feat" for every Feature feat emitted under a FeatureGroup fg
FeaturePaths ==
  UNION {{attr_defs.FeatureGroups[i].Name \o Dot \o attr_defs.FeatureGroups[i].Features[k].Name
            : k \in DOMAIN attr_defs.FeatureGroups[i].Features}
           : i \in DOMAIN attr_defs.FeatureGroups}

GeometryNames == {geometries[i].Name : i \in DOMAIN geometries}

\* the ChannelFunctions of the document, as <<mode, element, function>>
Functions == UNION {{<<mx[1], mx[2], k>> : k \in DOMAIN CfsOf(mx)} : mx \in Emitted}

FunctionAt(f) == CfsOf(<<f[1], f[2]>>)[f[3]]

\* C29: in every document build_gdtf makes, the Attribute of every
\* LogicalChannel and ChannelFunction is the Name of an Attribute element,
\* every Attribute's ActivationGroup is an emitted ActivationGroup and its
\* Feature an emitted "FeatureGroup.Feature", every Wheel of a
\* ChannelFunction is the Name of a Wheel element, and the Geometry of every
\* DMXMode and DMXChannel is the emitted Geometry "Body"
C29_ReferencesClosed ==
  DocumentMade =>
    /\ \A mx \in Emitted : ElAt(mx).LogicalChannel.Attribute \in AttributeNames
    /\ \A f \in Functions : FunctionAt(f).Attribute \in AttributeNames
    /\ \A i \in DOMAIN attr_defs.Attributes :
         /\ attr_defs.Attributes[i].ActivationGroup \in ActivationGroupNames
         /\ attr_defs.Attributes[i].Feature \in FeaturePaths
    /\ \A f \in Functions :
         "Wheel" \in DOMAIN FunctionAt(f) => FunctionAt(f).Wheel \in WheelNames
    /\ GeometryNames = {<<"B","o","d","y">>}
    /\ \A m \in Begun : dmx_modes_el[m].Geometry \in GeometryNames
    /\ \A mx \in Emitted : ElAt(mx).Geometry \in GeometryNames

\* a document with two channels of one wheel attribute and different names:
\* both name the one Wheel that was written
C29_Witness ==
  /\ DocumentMade
  /\ Len(wheels_el) = 1
  /\ \E f, g \in Functions :
       /\ "Wheel" \in DOMAIN FunctionAt(f) /\ "Wheel" \in DOMAIN FunctionAt(g)
       /\ ChOf(<<f[1], f[2]>>).name # ChOf(<<g[1], g[2]>>).name
       /\ FunctionAt(f).Wheel = wheels_el[1].Name
       /\ FunctionAt(g).Wheel = wheels_el[1].Name

====
